---------------------------- MODULE Spec2Model ----------------------------
(***************************************************************************)
(* token-guardian: the canary-marker engine (CanaryService), the usage     *)
(* fingerprinter (TokenFingerprinter), the token store (TokenStore) and    *)
(* the rotation timers of TokenGuardian as state machines.                 *)
(*                                                                         *)
(* A JavaScript string is a sequence of characters, each character a       *)
(* one-character TLA+ string ("a") or, outside printable ASCII, the string *)
(* "<U+n>" for code point n.  A Buffer is a sequence of bytes 0..255.      *)
(***************************************************************************)
EXTENDS Integers, Sequences, FiniteSets, TLC

VARIABLES enabled,     \* CanaryService.enabled
          canaries,    \* CanaryService.canaries: Map in insertion order, <<[id, name], ...>>
          alerts,      \* the 'canaryDetected' events the latest call emitted
          marked,      \* the latest embedCanary call: its arguments, marker id and result
          lastCall,    \* the latest call of the engine, embedCanary or detectCanary, and its result
          subscribers, \* the callbacks given to onCanaryTriggered, in order: "ok" returns, "throws" throws
          webhookUrl,  \* CanaryService.webhookUrl
          alertEndpoints, \* CanaryService.alertEndpoints: token name -> url or Null
          delivered,   \* the callbacks the latest call invoked, with their arguments
          posts,       \* the posts started and not yet settled
          errorLog,    \* the console.error lines the latest step of the engine wrote
          maxHistoryLength, \* TokenFingerprinter.maxHistoryLength
          fingerprints,     \* TokenFingerprinter.fingerprints: hash -> record or NoRecord
          usageLog,         \* per recordUsage call on a tracked hash: its event and the warnings it logged
          lastWarn,         \* the warnings the latest recordUsage call logged
          infoLog,          \* the logger.info lines the latest fingerprinter call wrote
          fpCall,           \* the latest fingerprinter call and how it ended
          pending,          \* per request context: the usage events it has still to report
          tokens,           \* TokenStore.tokens: token name -> stored token or NoToken
          auditLog,         \* TokenStore.auditLog
          storeCall,        \* the latest call of the store or the guardian and what it returned
          rotationSchedules, \* TokenGuardian.rotationSchedules: token name -> timer handle, 0 for none
          timers,           \* the setTimeout timers armed and neither fired nor cleared
          nextTimer,        \* the number of timers armed so far
          rotating          \* the rotateToken calls that await the rotator

alertVars == <<subscribers, webhookUrl, alertEndpoints, delivered, posts, errorLog>>
canaryVars == <<enabled, canaries, alerts, marked, lastCall,
                subscribers, webhookUrl, alertEndpoints, delivered, posts, errorLog>>
fpVars == <<maxHistoryLength, fingerprints, usageLog, lastWarn, infoLog, fpCall, pending>>
guardVars == <<tokens, auditLog, storeCall, rotationSchedules, timers, nextTimer, rotating>>
vars == <<enabled, canaries, alerts, marked, lastCall,
          subscribers, webhookUrl, alertEndpoints, delivered, posts, errorLog,
          maxHistoryLength, fingerprints, usageLog, lastWarn, infoLog, fpCall, pending,
          tokens, auditLog, storeCall, rotationSchedules, timers, nextTimer, rotating>>

----------------------------------------------------------------------------
(* Characters, bytes and strings *)

\* A string literal as a sequence of characters.
S(str) == [i \in 1..Len(str) |-> SubSeq(str, i, i)]

\* Printable ASCII, code points 32..126 (the grave accent, 96, is written "<U+96>").
Ascii == S(" !\"#$%&'()*+,-./0123456789:;<=>?@ABCDEFGHIJKLMNOPQRSTUVWXYZ[\\]^_")
         \o <<"<U+96>">> \o S("abcdefghijklmnopqrstuvwxyz{|}~")

AsciiChars == {Ascii[i] : i \in 1..Len(Ascii)}

OrdTable == [c \in AsciiChars |-> 31 + CHOOSE i \in 1..Len(Ascii) : Ascii[i] = c]

\* charCodeAt / the UTF-8 byte of an ASCII character.
Ord(c) == OrdTable[c]

\* String.fromCharCode
Chr(n) == IF n \in 32..126 THEN Ascii[n - 31] ELSE "<U+" \o ToString(n) \o ">"

ZWSP == Chr(8203)           \* U+200B, zero-width space
ZWNJ == Chr(8204)           \* U+200C, zero-width non-joiner
Replacement == Chr(65533)   \* U+FFFD, what a UTF-8 decoder writes for invalid input

Min(a, b) == IF a < b THEN a ELSE b

\* embedCanary leaves a token of at most this length alone.
ShortLimit == 20

\* x >> k and the low k bits of x, for x >= 0
Shr(x, k) == x \div (2 ^ k)
Low(x, k) == x % (2 ^ k)

\* How often c occurs in s.
RECURSIVE Count(_, _)
Count(s, c) == IF s = <<>> THEN 0
               ELSE (IF Head(s) = c THEN 1 ELSE 0) + Count(Tail(s), c)

\* String.prototype.substring(from, to) with 0-based from <= to, clamped to the length.
Substring(s, from, to) == SubSeq(s, Min(from, Len(s)) + 1, Min(to, Len(s)))

\* String.prototype.substring(from)
SubstringFrom(s, from) == SubSeq(s, Min(from, Len(s)) + 1, Len(s))

\* String.prototype.split('.')
RECURSIVE SplitAt(_, _, _)
SplitAt(s, sep, cur) ==
    IF s = <<>> THEN <<cur>>
    ELSE IF Head(s) = sep THEN <<cur>> \o SplitAt(Tail(s), sep, <<>>)
    ELSE SplitAt(Tail(s), sep, Append(cur, Head(s)))

Split(s, sep) == SplitAt(s, sep, <<>>)

\* Array.prototype.join
RECURSIVE Join(_, _)
Join(parts, sep) ==
    IF parts = <<>> THEN <<>>
    ELSE IF Len(parts) = 1 THEN parts[1]
    ELSE parts[1] \o sep \o Join(Tail(parts), sep)

\* String.prototype.startsWith
StartsWith(s, prefix) ==
    /\ Len(prefix) <= Len(s)
    /\ SubSeq(s, 1, Len(prefix)) = prefix

\* Buffer.from(str) for an ASCII string: its bytes.
BytesOf(s) == [i \in 1..Len(s) |-> Ord(s[i])]

LowerHex == S("abcdef")
UpperHex == S("ABCDEF")
Digits == S("0123456789")

IsUpperAF(c) == \E i \in 1..6 : UpperHex[i] = c

\* String.prototype.toUpperCase / toLowerCase on one hexadecimal character.
ToUpper(c) == IF \E i \in 1..6 : LowerHex[i] = c
              THEN UpperHex[CHOOSE i \in 1..6 : LowerHex[i] = c] ELSE c
ToLower(c) == IF \E i \in 1..6 : UpperHex[i] = c
              THEN LowerHex[CHOOSE i \in 1..6 : UpperHex[i] = c] ELSE c

\* Buffer.toString('hex')
HexDigit(n) == IF n < 10 THEN Digits[n + 1] ELSE LowerHex[n - 9]
RECURSIVE BytesToHex(_)
BytesToHex(bytes) ==
    IF bytes = <<>> THEN <<>>
    ELSE <<HexDigit(Head(bytes) \div 16), HexDigit(Head(bytes) % 16)>> \o BytesToHex(Tail(bytes))

----------------------------------------------------------------------------
(* Base64, as Node's Buffer implements it *)

B64Alphabet == S("ABCDEFGHIJKLMNOPQRSTUVWXYZabcdefghijklmnopqrstuvwxyz0123456789+/")

\* unbase64: the 6-bit value of a character, -1 for a character that is skipped.
\* The decoder accepts the URL-safe '-' and '_' as 62 and 63.
Unbase64Table ==
    [c \in AsciiChars |->
        IF \E i \in 1..64 : B64Alphabet[i] = c
        THEN (CHOOSE i \in 1..64 : B64Alphabet[i] = c) - 1
        ELSE IF c = "-" THEN 62
        ELSE IF c = "_" THEN 63
        ELSE -1]

Unbase64(c) == IF c \in AsciiChars THEN Unbase64Table[c] ELSE -1

\* The 6-bit values the decoder reads: it stops at the first '=' and skips
\* every character outside the alphabet.
RECURSIVE Sextets(_)
Sextets(s) ==
    IF s = <<>> \/ Head(s) = "=" THEN <<>>
    ELSE IF Unbase64(Head(s)) < 0 THEN Sextets(Tail(s))
    ELSE <<Unbase64(Head(s))>> \o Sextets(Tail(s))

\* Buffer.from(s, 'base64'): every full byte of the 6-bit stream.
Base64Decode(s) ==
    LET v == Sextets(s)
        n == (Len(v) * 6) \div 8
    IN  [k \in 1..n |->
            LET q == ((k - 1) * 8) \div 6 + 1
                r == ((k - 1) * 8) % 6
            IN  IF r = 0 THEN (v[q] * 4) + (v[q + 1] \div 16)
                ELSE IF r = 2 THEN ((v[q] % 16) * 16) + (v[q + 1] \div 4)
                ELSE ((v[q] % 4) * 64) + v[q + 1]]

\* buffer.toString('base64'): the standard alphabet, padded with '=' to a multiple of 4.
Base64Encode(bytes) ==
    LET n == Len(bytes)
        nchars == (n * 8 + 5) \div 6
        B(i) == IF i <= n THEN bytes[i] ELSE 0
        body == [j \in 1..nchars |->
                    LET p == ((j - 1) * 6) \div 8 + 1
                        r == ((j - 1) * 6) % 8
                        v == IF r = 0 THEN B(p) \div 4
                             ELSE IF r = 6 THEN ((B(p) % 4) * 16) + (B(p + 1) \div 16)
                             ELSE IF r = 4 THEN ((B(p) % 16) * 4) + (B(p + 1) \div 64)
                             ELSE B(p) % 64
                    IN  B64Alphabet[v + 1]]
        pad == [j \in 1..((4 - (nchars % 4)) % 4) |-> "="]
    IN  body \o pad

\* .replace(/=/g, '').replace(/\+/g, '-').replace(/\//g, '_')
RECURSIVE UrlSafe(_)
UrlSafe(s) ==
    IF s = <<>> THEN <<>>
    ELSE IF Head(s) = "=" THEN UrlSafe(Tail(s))
    ELSE <<IF Head(s) = "+" THEN "-" ELSE IF Head(s) = "/" THEN "_" ELSE Head(s)>>
         \o UrlSafe(Tail(s))

\* .replace(/-/g, '+').replace(/_/g, '/')
Standard(s) == [i \in 1..Len(s) |-> IF s[i] = "-" THEN "+" ELSE IF s[i] = "_" THEN "/" ELSE s[i]]

----------------------------------------------------------------------------
(* UTF-8 *)

IsCont(b) == b \in 128..191

\* buffer.toString('utf8'): one- to three-byte sequences decode to their code
\* point, every other byte to U+FFFD.  (A four-byte lead, 240..244, is written as
\* U+FFFD as well: no byte the engine writes or reads back from its own marker is one.)
RECURSIVE Utf8Decode(_)
Utf8Decode(b) ==
    IF b = <<>> THEN <<>>
    ELSE LET b1 == b[1]
             n == Len(b)
         IN  IF b1 < 128 THEN <<Chr(b1)>> \o Utf8Decode(Tail(b))
             ELSE IF b1 \in 194..223 /\ n >= 2 /\ IsCont(b[2])
                  THEN <<Chr((b1 % 32) * 64 + (b[2] % 64))>> \o Utf8Decode(SubSeq(b, 3, n))
             ELSE IF /\ b1 \in 224..239 /\ n >= 3 /\ IsCont(b[2]) /\ IsCont(b[3])
                     /\ (b1 = 224 => b[2] >= 160)
                     /\ (b1 = 237 => b[2] < 160)
                  THEN <<Chr((b1 % 16) * 4096 + (b[2] % 64) * 64 + (b[3] % 64))>>
                       \o Utf8Decode(SubSeq(b, 4, n))
             ELSE <<Replacement>> \o Utf8Decode(Tail(b))

\* .replace(/\0/g, '')
RECURSIVE StripNul(_)
StripNul(s) ==
    IF s = <<>> THEN <<>>
    ELSE IF Head(s) = Chr(0) THEN StripNul(Tail(s))
    ELSE <<Head(s)>> \o StripNul(Tail(s))

----------------------------------------------------------------------------
(* JSON: objects whose members are strings, as a sequence of <<key, value>>   *)
(* in insertion order.  ParseJSON accepts exactly the texts                 *)
(* {"k":"v",...} with no white space and no quote, backslash or comma       *)
(* inside a key or a value, and fails on every other text; the payloads     *)
(* the model draws are either of that form or no JSON text at all, so that  *)
(* it agrees with JSON.parse on them.                                       *)

NoJSON == [ok |-> FALSE, obj |-> <<>>]

\* obj[key] = value: an existing key keeps its place, a new one goes last.
SetKey(obj, key, value) ==
    IF \E i \in 1..Len(obj) : obj[i][1] = key
    THEN [i \in 1..Len(obj) |-> IF obj[i][1] = key THEN <<key, value>> ELSE obj[i]]
    ELSE Append(obj, <<key, value>>)

HasKey(obj, key) == \E i \in 1..Len(obj) : obj[i][1] = key

GetKey(obj, key) == obj[CHOOSE i \in 1..Len(obj) : obj[i][1] = key][2]

PlainText(s) == \A i \in 1..Len(s) : s[i] \in AsciiChars \ {"\"", "\\"}

\* One member, "key":"value".
ParseMember(m) ==
    LET quotes == {i \in 1..Len(m) : m[i] = "\""}
        second(a) == a \in quotes /\ a > 1 /\ \A i \in quotes : i = 1 \/ i >= a
    IN  IF /\ Cardinality(quotes) = 4
           /\ 1 \in quotes /\ Len(m) \in quotes
           /\ \E a \in quotes : second(a) /\ a + 2 \in quotes /\ m[a + 1] = ":"
        THEN LET a == CHOOSE a \in quotes : second(a)
                 key == SubSeq(m, 2, a - 1)
                 value == SubSeq(m, a + 3, Len(m) - 1)
             IN  [ok |-> PlainText(key) /\ PlainText(value), key |-> key, value |-> value]
        ELSE [ok |-> FALSE, key |-> <<>>, value |-> <<>>]

RECURSIVE ParseMembers(_, _)
ParseMembers(ms, obj) ==
    IF ms = <<>> THEN [ok |-> TRUE, obj |-> obj]
    ELSE LET m == ParseMember(Head(ms))
         IN  IF m.ok THEN ParseMembers(Tail(ms), SetKey(obj, m.key, m.value))
             ELSE NoJSON

\* JSON.parse; ok is FALSE where it throws.
ParseJSON(text) ==
    IF Len(text) < 2 \/ text[1] # "{" \/ text[Len(text)] # "}" THEN NoJSON
    ELSE IF Len(text) = 2 THEN [ok |-> TRUE, obj |-> <<>>]
    ELSE ParseMembers(Split(SubSeq(text, 2, Len(text) - 1), ","), <<>>)

\* JSON.stringify
RECURSIVE StringifyMembers(_)
StringifyMembers(obj) ==
    IF obj = <<>> THEN <<>>
    ELSE <<S("\"") \o obj[1][1] \o S("\":\"") \o obj[1][2] \o S("\"")>>
         \o StringifyMembers(Tail(obj))

StringifyJSON(obj) == S("{") \o Join(StringifyMembers(obj), S(",")) \o S("}")

----------------------------------------------------------------------------
(* CanaryService: the registry *)

Null == "<null>"        \* null where a token name is expected
NullId == <<Null>>      \* null where a marker id (a character sequence) is expected

\* A value used as a condition: null and the empty string are false.
Truthy(name) == name # "" /\ name # Null
TruthyId(canaryId) == canaryId # <<>> /\ canaryId # NullId

\* this.canaries.has(id)
Has(reg, id) == \E i \in 1..Len(reg) : reg[i].id = id

\* this.canaries.get(id) || null
Get(reg, id) ==
    IF Has(reg, id) /\ Truthy(reg[CHOOSE i \in 1..Len(reg) : reg[i].id = id].name)
    THEN reg[CHOOSE i \in 1..Len(reg) : reg[i].id = id].name
    ELSE Null

\* this.canaries.set(id, name): a known id keeps its place in the iteration order.
RegisterMarker(reg, id, name) ==
    IF Has(reg, id)
    THEN [i \in 1..Len(reg) |-> IF reg[i].id = id THEN [id |-> id, name |-> name] ELSE reg[i]]
    ELSE Append(reg, [id |-> id, name |-> name])

----------------------------------------------------------------------------
(* CanaryService: the embedders *)

\* token.includes('.') && token.split('.').length === 3
LooksLikeJWT(token) == Count(token, ".") = 2

Base64Charset == {B64Alphabet[i] : i \in 1..64} \cup {"="}
HexCharset == {Digits[i] : i \in 1..10} \cup {LowerHex[i] : i \in 1..6} \cup {UpperHex[i] : i \in 1..6}

\* /^[A-Za-z0-9+/=]+$/.test(token)
IsBase64Charset(token) ==
    /\ token # <<>>
    /\ \A i \in 1..Len(token) : token[i] \in Base64Charset

\* /^[A-Fa-f0-9]+$/.test(token)
IsHexCharset(token) ==
    /\ token # <<>>
    /\ \A i \in 1..Len(token) : token[i] \in HexCharset

\* (b & 0xFC) | (m & 0x03)
SetLow2(b, m) == (b - (b % 4)) + (m % 4)

\* (b & 0xFE) | ((c & 0x80) >> 7)
SetLow1(b, c) == (b - (b % 2)) + (c \div 128)

EmbedBase64Marker(base64Data, marker) ==
    LET binaryData == Base64Decode(base64Data)
        dataLength == Len(binaryData)
        markerBinary == BytesOf(marker)
        position == dataLength \div 3
        written == [k \in 1..dataLength |->
                      LET i == k - 1 - position
                      IN  IF i >= 0 /\ i < Len(markerBinary)
                          THEN SetLow2(binaryData[k], markerBinary[i + 1])
                          ELSE binaryData[k]]
    IN  IF dataLength >= 32 THEN UrlSafe(Base64Encode(written)) ELSE base64Data

\* embedInJWT, had it written the marker id under the key "cid", which
\* detectCanary does not read.
EmbedInJWTUnderCid(token, canaryId) ==
    LET parts == Split(token, ".")
        parsed == ParseJSON(Utf8Decode(Base64Decode(parts[2])))
        payloadObj == SetKey(parsed.obj, S("cid"), canaryId)
        newPayload == UrlSafe(Base64Encode(BytesOf(StringifyJSON(payloadObj))))
    IN  IF parsed.ok
        THEN parts[1] \o S(".") \o newPayload \o S(".") \o parts[3]
        ELSE parts[1] \o S(".") \o EmbedBase64Marker(parts[2], canaryId) \o S(".") \o parts[3]

EmbedInJWT(token, canaryId) ==
    LET parts == Split(token, ".")
        header == parts[1]
        payload == parts[2]
        signature == parts[3]
        parsed == ParseJSON(Utf8Decode(Base64Decode(payload)))
        payloadObj == SetKey(parsed.obj, S("_cid"), canaryId)
        newPayload == UrlSafe(Base64Encode(BytesOf(StringifyJSON(payloadObj))))
    IN  IF parsed.ok
        THEN header \o S(".") \o newPayload \o S(".") \o signature
        ELSE header \o S(".") \o EmbedBase64Marker(payload, canaryId) \o S(".") \o signature

EmbedBase64Token(token, canaryId) ==
    LET data == Base64Decode(token)
        insertPos == Len(data) \div 4
        canaryData == BytesOf(canaryId)
        written == [k \in 1..Len(data) |->
                      LET i == k - 1 - insertPos
                      IN  IF i >= 0 /\ i < Min(Len(canaryData), 8)
                          THEN SetLow1(data[k], canaryData[i + 1])
                          ELSE data[k]]
    IN  IF Len(data) < 16 THEN token ELSE Base64Encode(written)

\* crypto.createHash('md5').update(canaryId).digest('hex').substring(0, 4), for
\* the marker ids of CanaryIds; the hash of any other string is "0000" here.
Md5Prefix(canaryId) ==
    CASE canaryId = S("a1b2c3d4") -> S("22c1")
      [] canaryId = S("00c0ffee") -> S("239f")
      [] canaryId = S("ff01ab23") -> S("98f1")
      [] canaryId = S("0badf00d") -> S("71af")
      [] OTHER -> S("0000")

EmbedHexToken(token, canaryId) ==
    LET pos == (Len(token) * 3) \div 4
        canaryHex == Md5Prefix(canaryId)
        spliced == [i \in 1..Min(4, Len(token) - pos) |->
                      IF IsUpperAF(token[pos + i])
                      THEN ToUpper(canaryHex[i]) ELSE ToLower(canaryHex[i])]
    IN  Substring(token, 0, pos) \o spliced \o SubstringFrom(token, pos + 4)

\* The 8 bits of one character code, least significant first:
\* ((charCode >> bit) & 1) ? ZWNJ : ZWSP for bit = 0..7
CharBits(charCode) ==
    [k \in 1..8 |-> IF Shr(charCode, k - 1) % 2 = 1 THEN ZWNJ ELSE ZWSP]

RECURSIVE BinaryCanary(_)
BinaryCanary(chars) ==
    IF chars = <<>> THEN <<>>
    ELSE CharBits(Ord(Head(chars))) \o BinaryCanary(Tail(chars))

EmbedMixedToken(token, canaryId) ==
    LET pos == (Len(token) * 2) \div 3
    IN  Substring(token, 0, pos)
        \o BinaryCanary(Substring(canaryId, 0, Min(Len(canaryId), 4)))
        \o SubstringFrom(token, pos)

EmbedInGenericToken(token, canaryId) ==
    IF IsBase64Charset(token) THEN EmbedBase64Token(token, canaryId)
    ELSE IF IsHexCharset(token) THEN EmbedHexToken(token, canaryId)
    ELSE EmbedMixedToken(token, canaryId)

\* Which embedder embedCanary runs on an enabled engine.
EmbedderFor(token) ==
    IF LooksLikeJWT(token) THEN "jwt"
    ELSE IF Len(token) > ShortLimit THEN
         (IF IsBase64Charset(token) THEN "base64"
          ELSE IF IsHexCharset(token) THEN "hex" ELSE "mixed")
    ELSE "none"

\* embedCanary, had it left out the length test of its second branch.
EmbedResultAnyLength(token, canaryId) ==
    IF LooksLikeJWT(token) THEN EmbedInJWT(token, canaryId)
    ELSE EmbedInGenericToken(token, canaryId)

\* The string embedCanary returns once the marker is registered.
EmbedResult(token, canaryId) ==
    IF LooksLikeJWT(token) THEN EmbedInJWT(token, canaryId)
    ELSE IF Len(token) > ShortLimit THEN EmbedInGenericToken(token, canaryId)
    ELSE token

----------------------------------------------------------------------------
(* CanaryService: the extractors *)

\* hammingDistance(str1, str2)
HammingDistance(str1, str2) ==
    LET len == Min(Len(str1), Len(str2))
        longer == IF Len(str1) > Len(str2) THEN Len(str1) ELSE Len(str2)
    IN  Cardinality({i \in 1..len : str1[i] # str2[i]}) + (longer - len)

\* The first registered marker id, in the registry's iteration order, among
\* those at the positions hits; NullId when there is none.
FirstMatch(reg, hits) ==
    IF hits = {} THEN NullId
    ELSE reg[CHOOSE i \in hits : \A j \in hits : i <= j].id

\* extractBase64Marker: the two low bits of up to 8 bytes from 1/3 of the payload,
\* read as text with the NUL characters removed.
ExtractBase64Marker(base64Data) ==
    LET binaryData == Base64Decode(Standard(base64Data))
        position == Len(binaryData) \div 3
        markerLength == Min(8, Len(binaryData) - position)
        markerBuffer == [i \in 1..markerLength |-> binaryData[position + i] % 4]
    IN  IF Len(binaryData) < 32 THEN NullId
        ELSE StripNul(Utf8Decode(markerBuffer))

\* The pattern extractBase64TokenCanary reads: (data[extractPos + i] & 0x01) << 7
\* for 8 bytes, in hexadecimal, cut to 4 characters.
ExtractedBits(data) ==
    LET extractPos == Len(data) \div 4
        canaryData == [i \in 1..8 |->
                         IF i - 1 + extractPos < Len(data)
                         THEN (data[extractPos + i] % 2) * 128 ELSE 0]
    IN  Substring(BytesToHex(canaryData), 0, 4)

\* The pattern a registered marker id is compared by:
\* Buffer.from(canaryId).toString('hex').substring(0, 4)
IdPattern(canaryId) == Substring(BytesToHex(BytesOf(canaryId)), 0, 4)

\* The largest distance a pattern may lie from a marker's and still match.
Tolerance == 2

ExtractBase64TokenCanary(reg, token) ==
    LET data == Base64Decode(token)
        hits == {i \in 1..Len(reg) :
                    HammingDistance(ExtractedBits(data), IdPattern(reg[i].id)) <= Tolerance}
    IN  IF Len(data) < 16 THEN NullId ELSE FirstMatch(reg, hits)

ExtractHexTokenCanary(reg, token) ==
    LET pos == (Len(token) * 3) \div 4
        extractedHex == [i \in 1..4 |-> ToLower(token[pos + i])]
        canaryHex(canaryId) == [k \in 1..4 |-> ToLower(Md5Prefix(canaryId)[k])]
        hits == {i \in 1..Len(reg) :
                    HammingDistance(extractedHex, canaryHex(reg[i].id)) <= Tolerance}
    IN  IF pos + 4 > Len(token) THEN NullId ELSE FirstMatch(reg, hits)

IsZeroWidth(c) == c = ZWSP \/ c = ZWNJ

\* token.match(/[\u200B\u200C]+/): the first, longest run of the two characters;
\* <<>> when the token holds none.
ZeroWidthRun(token) ==
    IF \E i \in 1..Len(token) : IsZeroWidth(token[i])
    THEN LET first == CHOOSE i \in 1..Len(token) :
                         IsZeroWidth(token[i]) /\ \A j \in 1..(i - 1) : ~IsZeroWidth(token[j])
             last == CHOOSE k \in first..Len(token) :
                         /\ \A j \in first..k : IsZeroWidth(token[j])
                         /\ (k = Len(token) \/ ~IsZeroWidth(token[k + 1]))
         IN  SubSeq(token, first, last)
    ELSE <<>>

\* parseInt(bits, 2) of 8 characters '0'/'1': the first is the most significant.
ParseByte(run, from) ==
    LET bit(k) == IF run[from + k] = ZWNJ THEN 1 ELSE 0
    IN  bit(0) * 128 + bit(1) * 64 + bit(2) * 32 + bit(3) * 16
        + bit(4) * 8 + bit(5) * 4 + bit(6) * 2 + bit(7)

\* The text extractMixedTokenCanary decodes from the run: every full group of 8.
ExtractedString(run) ==
    Utf8Decode([k \in 1..(Len(run) \div 8) |-> ParseByte(run, (k - 1) * 8 + 1)])

ExtractMixedTokenCanary(reg, token) ==
    LET run == ZeroWidthRun(token)
        extractedString == ExtractedString(run)
        hits == {i \in 1..Len(reg) :
                    /\ extractedString # <<>>
                    /\ StartsWith(reg[i].id, Substring(extractedString, 0, 2))}
    IN  IF run = <<>> THEN NullId ELSE FirstMatch(reg, hits)

\* token.substring(0, 4) + '****' + token.substring(token.length - 4)
MaskToken(token) ==
    IF Len(token) <= 8 THEN S("****")
    ELSE Substring(token, 0, 4) \o S("****") \o SubstringFrom(token, Len(token) - 4)

NoMatch == [name |-> Null, method |-> "none"]

\* possibleCanary && this.canaries.has(possibleCanary), then
\* this.canaries.get(possibleCanary) || null
Lookup(reg, possibleCanary, method) ==
    IF TruthyId(possibleCanary) /\ Has(reg, possibleCanary)
    THEN [name |-> Get(reg, possibleCanary), method |-> method]
    ELSE NoMatch

\* detectCanary on an enabled engine: the name it returns and the branch that
\* returned it.
DetectResult(reg, token) ==
    IF LooksLikeJWT(token) THEN
        LET payload == Split(token, ".")[2]
            parsed == ParseJSON(Utf8Decode(Base64Decode(payload)))
        IN  IF parsed.ok
            THEN (IF HasKey(parsed.obj, S("_cid"))
                  THEN Lookup(reg, GetKey(parsed.obj, S("_cid")), "jwt_standard")
                  ELSE NoMatch)
            ELSE Lookup(reg, ExtractBase64Marker(payload), "jwt_binary")
    ELSE IF IsBase64Charset(token)
         THEN Lookup(reg, ExtractBase64TokenCanary(reg, token), "base64")
    ELSE IF IsHexCharset(token)
         THEN Lookup(reg, ExtractHexTokenCanary(reg, token), "hex")
    ELSE Lookup(reg, ExtractMixedTokenCanary(reg, token), "mixed")

\* The alert triggerAlert emits for a detection.
AlertData(name, token, method) ==
    [tokenName |-> name, detectionMethod |-> method, partialToken |-> MaskToken(token)]

----------------------------------------------------------------------------
(* CanaryService: the inputs and the calls *)

\* At most this many markers are registered.
MaxMarkers == 2

\* The token names passed to embedCanary.
Names == {"API_KEY", "DB_PASS"}

\* generateCanaryId returns the first 8 hexadecimal characters of a SHA-256
\* digest of name, clock and random bytes: any of them may come out.  These
\* stand for the 16^8 ids.
CanaryIds == {S("a1b2c3d4"), S("00c0ffee"), S("ff01ab23")}

\* header.payload.signature; the payloads are {"sub":"1"}, {}, {"_cid":"zz"}
\* and 37 bytes that are no JSON text.
JwtTokens == {S("hdr.eyJzdWIiOiIxIn0.sig"),
              S("hdr.e30.sig"),
              S("hdr.eyJfY2lkIjoienoifQ.sig"),
              S("hdr.QUJDREVGR0hJSktMTU5PUFFSU1RVVldYWVpBQkNERUZHSElKSw.sig")}

\* Longer than 20 characters, base64 alphabet only; the second decodes to 15 bytes,
\* the third to 16 and is written without its padding.
Base64Tokens == {S("QUJDREVGR0hJSktMTU5PUFFS"),
                 S("QUJDREVGR0hJSktMTU5PU"),
                 S("QUJDREVGR0hJSktMTU5PUA")}

\* Longer than 20 characters, hexadecimal digits only.
HexTokens == {S("0123456789abcdefABCDEF01")}

\* Longer than 20 characters, with a character outside both alphabets.
MixedTokens == {S("api-key_0123456789abcd")}

\* At most 20 characters and not three '.'-separated segments.
ShortTokens == {S("123"), S("API_KEY_12345"), S("a.b")}

Secrets == JwtTokens \cup Base64Tokens \cup HexTokens \cup MixedTokens \cup ShortTokens

\* Strings that embedCanary never returned.
ForeignTokens == {S("REGULAR_TOKEN_123"),
                  S("QUJDREVGR0hJSktMTU5PUFFS"),
                  S("hdr.eyJfY2lkIjoienoifQ.sig"),
                  S("0123456789abcdefABCDEF01")}

NoMark == [token |-> <<>>, name |-> Null, id |-> NullId, result |-> <<>>]
NoCall == [op |-> "none", candidate |-> <<>>, kind |-> "none", name |-> Null, method |-> "none",
           raised |-> FALSE]

\* What embedCanary returns.
EmbedReturn(on, token, canaryId) ==
    IF ~on THEN token ELSE EmbedResult(token, canaryId)

\* embedCanary, had it registered the marker before it tested this.enabled.
EmbedRegistryUnguarded(on, reg, canaryId, name) == RegisterMarker(reg, canaryId, name)

\* The registry after embedCanary.
EmbedRegistry(on, reg, canaryId, name) ==
    IF ~on THEN reg ELSE RegisterMarker(reg, canaryId, name)

\* EmbedReturn for every secret and marker id of the model.
EmbedTable == [on \in BOOLEAN, token \in Secrets, canaryId \in CanaryIds \cup {NullId} |->
                  EmbedReturn(on, token, canaryId)]

\* embedCanary(token, name); the marker id is generateCanaryId's.
EmbedCanary(token, name) ==
    /\ enabled => Len(canaries) < MaxMarkers
    /\ \E canaryId \in (IF enabled THEN CanaryIds ELSE {NullId}) :
          /\ canaries' = EmbedRegistry(enabled, canaries, canaryId, name)
          /\ marked' = [token |-> token, name |-> name, id |-> canaryId,
                        result |-> EmbedTable[enabled, token, canaryId]]
    /\ lastCall' = [op |-> "embed", candidate |-> token, kind |-> "secret",
                    name |-> Null, method |-> "none", raised |-> FALSE]
    /\ alerts' = <<>>
    /\ delivered' = <<>>
    /\ errorLog' = <<>>
    /\ UNCHANGED <<enabled, subscribers, webhookUrl, alertEndpoints, posts>>
    /\ UNCHANGED <<fpVars, guardVars>>

\* What detectCanary returns, and by which branch.
DetectReturn(on, reg, token) ==
    IF ~on THEN NoMatch ELSE DetectResult(reg, token)

\* The position of the first subscriber that throws, 0 when none does.
FirstThrowing(subs) ==
    IF \E i \in 1..Len(subs) : subs[i] = "throws"
    THEN CHOOSE i \in 1..Len(subs) :
            subs[i] = "throws" /\ \A j \in 1..(i - 1) : subs[j] # "throws"
    ELSE 0

\* How a post ends: axios.post resolves, rejects, or throws before it returns a
\* promise; sendWebhookAlert and sendEndpointAlert are async functions, so the
\* throw rejects their promise as well.
Fates == {"resolves", "rejects", "throws"}

\* triggerAlert(tokenName, token, detectionMethod): emit calls the subscribers
\* in order and a throw of one leaves triggerAlert at once; then a post to the
\* webhook and one to the name's endpoint are started, each an async call that
\* returns its promise at once.
TriggerAlert(subs, webhook, endpoints, name, token, method) ==
    LET alert == AlertData(name, token, method)
        stop == FirstThrowing(subs)
        called == IF stop = 0 THEN Len(subs) ELSE stop
        endpoint == IF name \in DOMAIN endpoints THEN endpoints[name] ELSE Null
        toWebhook == IF Truthy(webhook)
                     THEN <<[to |-> "webhook", url |-> webhook, alert |-> alert]>>
                     ELSE <<>>
        toEndpoint == IF Truthy(endpoint)
                      THEN <<[to |-> "endpoint", url |-> endpoint, alert |-> alert]>>
                      ELSE <<>>
    IN  [threw |-> stop # 0,
         emitted |-> <<alert>>,
         delivered |-> [i \in 1..called |->
                          [subscriber |-> i, name |-> alert.tokenName, alert |-> alert]],
         posts |-> IF stop # 0 THEN <<>> ELSE toWebhook \o toEndpoint]

Quiet == [name |-> Null, method |-> "none", raised |-> FALSE,
          emitted |-> <<>>, delivered |-> <<>>, posts |-> <<>>]

\* detectCanary once the branch of the candidate's shape found a marker's
\* name, had triggerAlert been called outside the try blocks: a throw of a
\* subscriber leaves detectCanary.
AlertOutcomeUncaught(found, reg, subs, webhook, endpoints, token) ==
    LET first == TriggerAlert(subs, webhook, endpoints, found.name, token, found.method)
    IN  IF ~Truthy(found.name) THEN Quiet
        ELSE [name |-> IF first.threw THEN Null ELSE found.name,
              method |-> IF first.threw THEN "none" ELSE found.method,
              raised |-> first.threw,
              emitted |-> first.emitted, delivered |-> first.delivered, posts |-> first.posts]

\* detectCanary once the branch of the candidate's shape found a marker's name
\* (found; NoMatch when it did not): what the call returns and by which branch,
\* whether it raises, the events it emits, the callbacks it invokes and the
\* posts it starts.  A throw out of triggerAlert is caught by the try around
\* the branch; in the JWT branch the catch around the parse catches it and goes
\* on to the binary analysis.
AlertOutcome(found, reg, subs, webhook, endpoints, token) ==
    LET first == TriggerAlert(subs, webhook, endpoints, found.name, token, found.method)
        binary == Lookup(reg, ExtractBase64Marker(Split(token, ".")[2]), "jwt_binary")
        second == TriggerAlert(subs, webhook, endpoints, binary.name, token, "jwt_binary")
    IN  IF ~Truthy(found.name) THEN Quiet
        ELSE IF ~first.threw
        THEN [name |-> found.name, method |-> found.method, raised |-> FALSE,
              emitted |-> first.emitted, delivered |-> first.delivered, posts |-> first.posts]
        ELSE IF found.method = "jwt_standard" /\ Truthy(binary.name)
        THEN [name |-> IF second.threw THEN Null ELSE binary.name,
              method |-> IF second.threw THEN "none" ELSE "jwt_binary",
              raised |-> FALSE,
              emitted |-> first.emitted \o second.emitted,
              delivered |-> first.delivered \o second.delivered,
              posts |-> second.posts]
        ELSE [name |-> Null, method |-> "none", raised |-> FALSE,
              emitted |-> first.emitted, delivered |-> first.delivered, posts |-> <<>>]

\* The marked secret with the least significant bit of the bytes at the given
\* offsets from 1/4 of its length flipped: the bits embedBase64Token wrote.
FlipBits(token, offsets) ==
    LET data == Base64Decode(token)
        insertPos == Len(data) \div 4
    IN  Base64Encode([k \in 1..Len(data) |->
            IF (k - 1 - insertPos) \in offsets
            THEN (IF data[k] % 2 = 0 THEN data[k] + 1 ELSE data[k] - 1)
            ELSE data[k]])

\* The marked secret with the characters at the given offsets from 3/4 of its
\* length replaced by another hexadecimal digit: the characters embedHexToken splices.
ChangeHex(token, offsets) ==
    LET pos == (Len(token) * 3) \div 4
    IN  [k \in 1..Len(token) |->
            IF (k - 1 - pos) \in offsets
            THEN (IF token[k] = "0" THEN "1" ELSE "0")
            ELSE token[k]]

\* One or two of the embedded positions.
BitOffsets == {{0}, {0, 1}, {2, 7}}
HexOffsets == {{0}, {1, 3}}

\* The strings detectCanary is called with: the latest marked secret as
\* embedCanary returned it, that secret altered in one or two embedded positions,
\* and strings embedCanary never returned.
Candidates ==
    [kind : {"foreign"}, token : ForeignTokens]
    \cup (IF marked = NoMark THEN {}
          ELSE {[kind |-> "marked", token |-> marked.result]})
    \cup (IF marked # NoMark /\ enabled /\ ~LooksLikeJWT(marked.token)
             /\ Len(marked.token) > ShortLimit /\ IsBase64Charset(marked.token)
             /\ Len(Base64Decode(marked.token)) >= 16
          THEN {[kind |-> "bits", token |-> FlipBits(marked.result, o)] : o \in BitOffsets}
          ELSE {})
    \cup (IF marked # NoMark /\ enabled /\ ~LooksLikeJWT(marked.token)
             /\ Len(marked.token) > ShortLimit /\ IsHexCharset(marked.token)
          THEN {[kind |-> "hex", token |-> ChangeHex(marked.result, o)] : o \in HexOffsets}
          ELSE {})

\* detectCanary(token)
DetectCanary(kind, token) ==
    /\ \E found \in {DetectReturn(enabled, canaries, token)} :
       \E out \in {AlertOutcome(found, canaries, subscribers, webhookUrl,
                                alertEndpoints, token)} :
          /\ alerts' = out.emitted
          /\ delivered' = out.delivered
          /\ posts' = posts \o out.posts
          /\ lastCall' = [op |-> "detect", candidate |-> token, kind |-> kind,
                          name |-> out.name, method |-> out.method,
                          raised |-> out.raised]
    /\ errorLog' = <<>>
    /\ UNCHANGED <<enabled, canaries, marked, subscribers, webhookUrl, alertEndpoints>>
    /\ UNCHANGED <<fpVars, guardVars>>

\* onCanaryTriggered(callback): one more listener of 'canaryDetected'.
OnCanaryTriggered(callback) ==
    /\ subscribers' = Append(subscribers, callback)
    /\ errorLog' = <<>>
    /\ UNCHANGED <<enabled, canaries, alerts, marked, lastCall, webhookUrl,
                   alertEndpoints, delivered, posts>>
    /\ UNCHANGED <<fpVars, guardVars>>

\* configureWebhook(webhookUrl)
ConfigureWebhook(url) ==
    /\ webhookUrl' = url
    /\ errorLog' = <<>>
    /\ UNCHANGED <<enabled, canaries, alerts, marked, lastCall, subscribers,
                   alertEndpoints, delivered, posts>>
    /\ UNCHANGED <<fpVars, guardVars>>

\* addAlertEndpoint(tokenName, endpointUrl)
AddAlertEndpoint(tokenName, endpointUrl) ==
    /\ alertEndpoints' = [alertEndpoints EXCEPT ![tokenName] = endpointUrl]
    /\ errorLog' = <<>>
    /\ UNCHANGED <<enabled, canaries, alerts, marked, lastCall, subscribers,
                   webhookUrl, delivered, posts>>
    /\ UNCHANGED <<fpVars, guardVars>>

\* The promise of the i-th post in flight settles as the network decides; the
\* .catch handler of a rejected one writes to console.error.
SettlePost(i, fate) ==
    /\ i \in 1..Len(posts)
    /\ posts' = [k \in 1..(Len(posts) - 1) |-> IF k < i THEN posts[k] ELSE posts[k + 1]]
    /\ errorLog' = IF fate = "resolves" THEN <<>>
                   ELSE <<[to |-> posts[i].to, url |-> posts[i].url]>>
    /\ UNCHANGED <<enabled, canaries, alerts, marked, lastCall, subscribers,
                   webhookUrl, alertEndpoints, delivered>>
    /\ UNCHANGED <<fpVars, guardVars>>

----------------------------------------------------------------------------
(* TokenFingerprinter *)

NoRecord == [hash |-> Null]

\* A number that is a quotient of two integers, in lowest terms; 0 / 0 is NaN.
RECURSIVE Gcd(_, _)
Gcd(a, b) == IF b = 0 THEN a ELSE Gcd(b, a % b)

NaN == [num |-> 0, den |-> 0]

Quotient(a, b) ==
    IF b = 0 THEN NaN
    ELSE [num |-> a \div Gcd(a, b), den |-> b \div Gcd(a, b)]

One == [num |-> 1, den |-> 1]

\* generateFingerprint: the first 16 hexadecimal characters of the SHA-256
\* digest of the secret.
GenerateFingerprint(token) ==
    CASE token = "secretA" -> "41112091f63b430b"
      [] token = "secretB" -> "7bf5e68b4e6c4d69"

\* array.slice(-k)
LastK(seq, k) == IF Len(seq) <= k THEN seq ELSE SubSeq(seq, Len(seq) - k + 1, Len(seq))

\* array.filter(e => e.success).length
RECURSIVE Successes(_)
Successes(history) ==
    IF history = <<>> THEN 0
    ELSE (IF Head(history).success THEN 1 ELSE 0) + Successes(Tail(history))

\* The record initializeTracking creates, had it started from a success rate of 0.
NewRecordZeroRate(hash, tokenName, now) ==
    [hash |-> hash, tokenName |-> tokenName, firstSeen |-> now, lastSeen |-> now,
     patterns |-> [sources |-> {}, operations |-> {},
                   successRate |-> [num |-> 0, den |-> 1], totalUsage |-> 0],
     history |-> <<>>]

\* The record initializeTracking creates.
NewRecord(hash, tokenName, now) ==
    [hash |-> hash, tokenName |-> tokenName, firstSeen |-> now, lastSeen |-> now,
     patterns |-> [sources |-> {}, operations |-> {}, successRate |-> One, totalUsage |-> 0],
     history |-> <<>>]

\* The hour (UTC) detectAnomalies reports as off-hours, the number of recent
\* events it looks at, and the success ratio, in tenths, at or below which it
\* reports a failure rate.
OffHour == 2
RecentWindow == 5
FailureTenths == 3

\* detectAnomalies, had it compared the operation only.
DetectAnomaliesOperationOnly(data, event) ==
    IF event.timestamp = OffHour THEN {"off_hours"}
    ELSE IF event.operation \notin data.patterns.operations THEN {"new_operation"}
    ELSE {}

\* detectAnomalies, had it read the hour off the record's firstSeen, the clock
\* reading initializeTracking stored.
DetectAnomaliesByFirstSeen(data, event) ==
    LET recentEvents == LastK(data.history, RecentWindow)
    IN  IF data.firstSeen = OffHour THEN {"off_hours"}
        ELSE IF /\ Len(recentEvents) >= RecentWindow
                /\ Successes(recentEvents) * 10 <= FailureTenths * Len(recentEvents)
             THEN {"failure_rate"}
        ELSE (IF event.source \notin data.patterns.sources THEN {"new_source"} ELSE {})
             \cup (IF event.operation \notin data.patterns.operations
                   THEN {"new_operation"} ELSE {})

\* detectAnomalies: the warnings it logs.  The off-hours and the failure-rate
\* warnings each end the function.
DetectAnomalies(data, event) ==
    LET recentEvents == LastK(data.history, RecentWindow)
    IN  IF event.timestamp = OffHour THEN {"off_hours"}
        ELSE IF /\ Len(recentEvents) >= RecentWindow
                /\ Successes(recentEvents) * 10 <= FailureTenths * Len(recentEvents)
             THEN {"failure_rate"}
        ELSE (IF event.source \notin data.patterns.sources THEN {"new_source"} ELSE {})
             \cup (IF event.operation \notin data.patterns.operations
                   THEN {"new_operation"} ELSE {})

\* The eviction, had it used pop() where the code uses shift().
PushAndEvictNewest(history, event, max) ==
    LET all == Append(history, event)
    IN  IF Len(all) <= max THEN all ELSE SubSeq(all, 1, max)

\* history.push(event); while (history.length > maxHistoryLength) history.shift()
PushAndEvict(history, event, max) == LastK(Append(history, event), max)

\* successfulEvents / totalEvents over the history
SuccessRate(history) == Quotient(Successes(history), Len(history))

\* The record after recordUsage absorbed the event, had it taken totalUsage from
\* the length of the retained history.
AbsorbCountingHistory(data, event, max) ==
    LET history == PushAndEvict(data.history, event, max)
    IN  [data EXCEPT !.lastSeen = event.timestamp,
                     !.history = history,
                     !.patterns = [sources |-> data.patterns.sources \cup {event.source},
                                   operations |-> data.patterns.operations \cup {event.operation},
                                   totalUsage |-> Len(history),
                                   successRate |-> SuccessRate(history)]]

\* The record after recordUsage absorbed the event.
Absorb(data, event, max) ==
    LET history == PushAndEvict(data.history, event, max)
    IN  [data EXCEPT !.lastSeen = event.timestamp,
                     !.history = history,
                     !.patterns = [sources |-> data.patterns.sources \cup {event.source},
                                   operations |-> data.patterns.operations \cup {event.operation},
                                   totalUsage |-> data.patterns.totalUsage + 1,
                                   successRate |-> SuccessRate(history)]]

NoFpCall == [op |-> "none", token |-> Null, hash |-> Null, existed |-> FALSE,
             returned |-> Null, raised |-> FALSE]

\* initializeTracking(token, tokenName), called when the clock reads now.
InitializeTracking(token, tokenName, now) ==
    LET hash == GenerateFingerprint(token)
        existed == fingerprints[hash] # NoRecord
    IN  /\ IF ~existed
           THEN /\ fingerprints' = [fingerprints EXCEPT ![hash] = NewRecord(hash, tokenName, now)]
                /\ infoLog' = <<<<"Started tracking token", tokenName, hash>>>>
                /\ usageLog' = IF hash = GenerateFingerprint("secretA") THEN <<>> ELSE usageLog
           ELSE /\ infoLog' = <<>>
                /\ UNCHANGED <<fingerprints, usageLog>>
        /\ fpCall' = [op |-> "init", token |-> token, hash |-> hash, existed |-> existed,
                      returned |-> hash, raised |-> FALSE]
        /\ UNCHANGED <<maxHistoryLength, lastWarn, pending>>
        /\ UNCHANGED <<canaryVars, guardVars>>

\* recordUsage, had it started a record for a hash it does not know.
UsageOutcomeUpsert(data, event, max) ==
    LET known == IF data = NoRecord THEN NewRecord("auto", "auto", event.timestamp) ELSE data
    IN  [raised |-> FALSE, data |-> Absorb(known, event, max),
         warnings |-> IF data = NoRecord THEN {"unknown_token"}
                      ELSE DetectAnomalies(data, event)]

\* recordUsage: how it ends, the record afterwards and the warnings logged, for
\* the record data that fingerprints holds under the hash (NoRecord: none).
UsageOutcome(data, event, max) ==
    IF data = NoRecord
    THEN [raised |-> FALSE, data |-> NoRecord, warnings |-> {"unknown_token"}]
    ELSE [raised |-> FALSE, data |-> Absorb(data, event, max),
          warnings |-> DetectAnomalies(data, event)]

\* recordUsage(tokenHash, event), whichever context calls it: the function is
\* synchronous, so it runs from its first statement to its last in one step.
Recording(tokenHash, event) ==
    LET data == fingerprints[tokenHash]
        out == UsageOutcome(data, event, maxHistoryLength)
    IN  /\ fingerprints' = [fingerprints EXCEPT ![tokenHash] = out.data]
        /\ lastWarn' = out.warnings
        /\ usageLog' = IF data = NoRecord \/ out.raised THEN usageLog
                       ELSE Append(usageLog, [event |-> event, warnings |-> out.warnings])
        /\ infoLog' = <<>>
        /\ fpCall' = [op |-> "record", token |-> Null, hash |-> tokenHash,
                      existed |-> data # NoRecord, returned |-> Null, raised |-> out.raised]
        /\ UNCHANGED maxHistoryLength
        /\ UNCHANGED <<canaryVars, guardVars>>

\* recordUsage(tokenHash, event)
RecordUsage(tokenHash, event) ==
    /\ Recording(tokenHash, event)
    /\ UNCHANGED pending

\* A request context reports the next of its usage events for the tracked hash.
ContextRecordUsage(ctx) ==
    /\ pending[ctx] # <<>>
    /\ Recording(GenerateFingerprint("secretA"), Head(pending[ctx]))
    /\ pending' = [pending EXCEPT ![ctx] = Tail(pending[ctx])]

\* removeTracking, had it kept the record and emptied it.
RemoveTrackingSoft(fingerprint) ==
    LET data == fingerprints[fingerprint]
    IN  /\ IF data # NoRecord
           THEN /\ infoLog' = <<<<"Stopped tracking token", data.tokenName, fingerprint>>>>
                /\ fingerprints' = [fingerprints EXCEPT ![fingerprint].history = <<>>]
           ELSE /\ infoLog' = <<>>
                /\ UNCHANGED fingerprints
        /\ fpCall' = [op |-> "remove", token |-> Null, hash |-> fingerprint,
                      existed |-> data # NoRecord, returned |-> Null, raised |-> FALSE]
        /\ UNCHANGED <<maxHistoryLength, usageLog, lastWarn, pending>>
        /\ UNCHANGED <<canaryVars, guardVars>>

\* removeTracking(fingerprint)
RemoveTracking(fingerprint) ==
    LET data == fingerprints[fingerprint]
    IN  /\ IF data # NoRecord
           THEN /\ infoLog' = <<<<"Stopped tracking token", data.tokenName, fingerprint>>>>
                /\ fingerprints' = [fingerprints EXCEPT ![fingerprint] = NoRecord]
           ELSE /\ infoLog' = <<>>
                /\ UNCHANGED fingerprints
        /\ fpCall' = [op |-> "remove", token |-> Null, hash |-> fingerprint,
                      existed |-> data # NoRecord, returned |-> Null, raised |-> FALSE]
        /\ UNCHANGED <<maxHistoryLength, usageLog, lastWarn, pending>>
        /\ UNCHANGED <<canaryVars, guardVars>>

\* getFingerprint(fingerprint): the record, NoRecord for null
GetFingerprint(fingerprint) == fingerprints[fingerprint]

\* getUsageHistory(fingerprint, limit); limit = 0 stands for a limit not given
GetUsageHistory(fingerprint, limit) ==
    LET data == fingerprints[fingerprint]
    IN  IF data = NoRecord THEN <<>>
        ELSE IF limit # 0 THEN LastK(data.history, limit) ELSE data.history

NoPatterns == [sources |-> Null]

\* getUsagePatterns(fingerprint): the patterns, NoPatterns for null
GetUsagePatterns(fingerprint) ==
    LET data == fingerprints[fingerprint]
    IN  IF data = NoRecord THEN NoPatterns ELSE data.patterns

\* The secret that is tracked, a hash that never is, and the names, clock
\* readings (hours, UTC) and events of the calls.
TrackedSecret == "secretA"
TrackedHash == GenerateFingerprint(TrackedSecret)
UnknownHash == "unknown-hash"
OtherSecret == "secretB"
OtherHash == GenerateFingerprint(OtherSecret)
Hashes == {TrackedHash, UnknownHash}
AllHashes == {TrackedHash, OtherHash, UnknownHash}
Contexts == {"ctx1", "ctx2"}
TokenNames == {"Test", "Other"}
Hours == {2, 12}

Event(hour, operation, source, success) ==
    [timestamp |-> hour, operation |-> operation, source |-> source, success |-> success]

Events ==
    {Event(12, "api_call", "1.1.1.1", TRUE),
     Event(12, "api_call", "1.1.1.1", FALSE),
     Event(12, "admin", "2.2.2.2", TRUE),
     Event(2, "admin", "1.1.1.1", TRUE),
     Event(2, "api_call", "2.2.2.2", FALSE)}

\* The events of the scenarios: noon, one operation, two sources.
ScenarioEvents ==
    {Event(12, "api_call", src, ok) : src \in {"1.1.1.1", "2.2.2.2"}, ok \in BOOLEAN}

\* The largest maxHistoryLength under SpecFP and the number of recordUsage
\* calls on the tracked hash; maxHistoryLength and the number of calls under
\* SpecScenario.
MaxHist == 2
MaxCalls == 3
ScenarioHist == 5
ScenarioCalls == 6

----------------------------------------------------------------------------
(* TokenStore *)

\* this.tokens.get(tokenName) of a name the map does not hold.
NoToken == [value |-> Null]

\* A config as TokenGuardian.protect builds it.
Config(rotationEnabled, canaryEnabled) ==
    [rotationEnabled |-> rotationEnabled, rotationInterval |-> "30d",
     canaryEnabled |-> canaryEnabled, serviceType |-> "default"]

\* encrypt(value): `${iv}:${ciphertext}`, two fields that hold no ':'.
Encrypt(value) == <<"iv", <<"aes-256-cbc", value>>>>

\* decrypt(encrypted): the second field deciphered.
Decrypt(encrypted) == encrypted[2][2]

\* The entries the audit log keeps.
AuditLimit == 1000

NoDetails == [undefined |-> TRUE]

\* logAction(tokenName, action, details)
LogAction(log, tokenName, action, details) ==
    LET pushed == Append(log, [tokenName |-> tokenName, action |-> action,
                               details |-> details])
    IN  IF Len(pushed) > AuditLimit
        THEN SubSeq(pushed, Len(pushed) - AuditLimit + 1, Len(pushed))
        ELSE pushed

\* What a call of the store leaves in the map and in the log, and what it
\* returns: ok for the boolean of storeToken, updateToken and removeToken,
\* returned for the value of getToken and getAuditLog, <<>> for null.
Outcome(tks, log, ok, returned) ==
    [tokens |-> tks, auditLog |-> log, ok |-> ok, returned |-> returned]

\* storeToken(tokenName, tokenValue, config)
StoreTokenOutcome(tks, log, tokenName, tokenValue, config) ==
    Outcome([tks EXCEPT ![tokenName] =
                [value |-> Encrypt(tokenValue), config |-> config,
                 expiry |-> Null, lastUsed |-> FALSE]],
            LogAction(log, tokenName, "store", [configType |-> config.serviceType]),
            TRUE, <<>>)

\* updateToken(tokenName, newValue, newExpiry)
UpdateTokenOutcome(tks, log, tokenName, newValue, newExpiry) ==
    IF tks[tokenName] = NoToken
    THEN Outcome(tks, log, FALSE, <<>>)
    ELSE Outcome([tks EXCEPT ![tokenName] =
                     [@ EXCEPT !.value = Encrypt(newValue),
                               !.expiry = IF Truthy(newExpiry) THEN newExpiry ELSE @]],
                 LogAction(log, tokenName, "update", [hasNewExpiry |-> Truthy(newExpiry)]),
                 TRUE, <<>>)

\* getToken(tokenName): the decrypted value and the config, or null.
GetTokenOutcome(tks, log, tokenName) ==
    IF tks[tokenName] = NoToken
    THEN Outcome(tks, log, FALSE, <<>>)
    ELSE Outcome(tks, log, TRUE,
                 <<[value |-> Decrypt(tks[tokenName].value),
                    config |-> tks[tokenName].config]>>)

\* getTokenData(tokenName): a copy of the stored token with the value decrypted.
GetTokenData(tks, tokenName) ==
    IF tks[tokenName] = NoToken THEN NoToken
    ELSE [tks[tokenName] EXCEPT !.value = Decrypt(@)]

\* recordTokenUsage(tokenName)
RecordTokenUsageOutcome(tks, log, tokenName) ==
    IF tks[tokenName] = NoToken
    THEN Outcome(tks, log, FALSE, <<>>)
    ELSE Outcome([tks EXCEPT ![tokenName].lastUsed = TRUE],
                 LogAction(log, tokenName, "use", NoDetails),
                 TRUE, <<>>)

\* removeToken(tokenName)
RemoveTokenOutcome(tks, log, tokenName) ==
    IF tks[tokenName] = NoToken
    THEN Outcome(tks, log, FALSE, <<>>)
    ELSE Outcome([tks EXCEPT ![tokenName] = NoToken],
                 LogAction(log, tokenName, "remove", NoDetails),
                 TRUE, <<>>)

\* The entries of the log for the name.
EntriesOf(log, tokenName) ==
    SelectSeq(log, LAMBDA entry : entry.tokenName = tokenName)

\* getAuditLog(tokenName): the whole log for no name, the name's entries else.
GetAuditLogOutcome(tks, log, tokenName) ==
    Outcome(tks, log, TRUE,
            IF Truthy(tokenName) THEN EntriesOf(log, tokenName) ELSE log)

NoStoreCall == [op |-> "none", name |-> Null, ok |-> FALSE, returned |-> <<>>]

\* A call of the store.
StoreCalled(op, tokenName, out) ==
    /\ tokens' = out.tokens
    /\ auditLog' = out.auditLog
    /\ storeCall' = [op |-> op, name |-> tokenName, ok |-> out.ok,
                     returned |-> out.returned]
    /\ UNCHANGED <<rotationSchedules, timers, nextTimer, rotating>>
    /\ UNCHANGED <<canaryVars, fpVars>>

StoreToken(tokenName, tokenValue, config) ==
    StoreCalled("store", tokenName,
                StoreTokenOutcome(tokens, auditLog, tokenName, tokenValue, config))

UpdateToken(tokenName, newValue, newExpiry) ==
    StoreCalled("update", tokenName,
                UpdateTokenOutcome(tokens, auditLog, tokenName, newValue, newExpiry))

GetToken(tokenName) ==
    StoreCalled("get", tokenName, GetTokenOutcome(tokens, auditLog, tokenName))

RecordTokenUsage(tokenName) ==
    StoreCalled("use", tokenName, RecordTokenUsageOutcome(tokens, auditLog, tokenName))

RemoveToken(tokenName) ==
    StoreCalled("remove", tokenName, RemoveTokenOutcome(tokens, auditLog, tokenName))

GetAuditLog(tokenName) ==
    StoreCalled("audit", tokenName, GetAuditLogOutcome(tokens, auditLog, tokenName))

----------------------------------------------------------------------------
(* TokenGuardian: protected tokens and their rotation timers *)

\* cancelRotation(tokenName): the schedule map and the armed timers after it.
\* clearTimeout of a timer that has fired does nothing.
CancelRotation(schedules, armed, tokenName) ==
    IF schedules[tokenName] # 0
    THEN [schedules |-> [schedules EXCEPT ![tokenName] = 0],
          timers |-> {t \in armed : t.id # schedules[tokenName]}]
    ELSE [schedules |-> schedules, timers |-> armed]

\* scheduleRotation(tokenName, serviceType, interval): the timer of the name is
\* cancelled and a new one armed, whose callback rotates the token and
\* schedules again.
ScheduleRotation(schedules, armed, count, tokenName) ==
    LET cancelled == CancelRotation(schedules, armed, tokenName)
    IN  [schedules |-> [cancelled.schedules EXCEPT ![tokenName] = count + 1],
         timers |-> cancelled.timers \cup {[id |-> count + 1, name |-> tokenName]},
         nextTimer |-> count + 1]

\* The schedule left as it is.
Unscheduled == [schedules |-> rotationSchedules, timers |-> timers, nextTimer |-> nextTimer]

\* this.canaryService.embedCanary(token, tokenName) inside a call of the
\* guardian, when the token's config asks for it.
GuardianEmbeds(use, token, tokenName, canaryId) ==
    /\ IF use
       THEN /\ canaries' = EmbedRegistry(enabled, canaries, canaryId, tokenName)
            /\ marked' = [token |-> token, name |-> tokenName, id |-> canaryId,
                          result |-> EmbedTable[enabled, token, canaryId]]
            /\ lastCall' = [op |-> "embed", candidate |-> token, kind |-> "secret",
                            name |-> Null, method |-> "none", raised |-> FALSE]
            /\ alerts' = <<>>
            /\ delivered' = <<>>
            /\ errorLog' = <<>>
       ELSE UNCHANGED <<canaries, marked, lastCall, alerts, delivered, errorLog>>
    /\ UNCHANGED <<enabled, subscribers, webhookUrl, alertEndpoints, posts>>

\* The value the guardian stores.
ProtectedValue(use, token, canaryId) ==
    IF use THEN EmbedTable[enabled, token, canaryId] ELSE token

MarkerIds == IF enabled THEN CanaryIds ELSE {NullId}

\* protect(tokenName, tokenValue, {rotationEnabled, canaryEnabled})
Protect(tokenName, tokenValue, rotationEnabled, canaryEnabled) ==
    \E canaryId \in MarkerIds :
    \E stored \in {StoreTokenOutcome(tokens, auditLog, tokenName,
                                     ProtectedValue(canaryEnabled, tokenValue, canaryId),
                                     Config(rotationEnabled, canaryEnabled))} :
    \E scheduled \in {IF rotationEnabled
                      THEN ScheduleRotation(rotationSchedules, timers, nextTimer, tokenName)
                      ELSE Unscheduled} :
       /\ GuardianEmbeds(canaryEnabled, tokenValue, tokenName, canaryId)
       /\ tokens' = stored.tokens
       /\ auditLog' = stored.auditLog
       /\ rotationSchedules' = scheduled.schedules
       /\ timers' = scheduled.timers
       /\ nextTimer' = scheduled.nextTimer
       /\ storeCall' = [op |-> "protect", name |-> tokenName, ok |-> TRUE, returned |-> <<>>]
       /\ UNCHANGED rotating
       /\ UNCHANGED fpVars

\* TokenGuardian.getToken(tokenName): the value, and the use recorded.
GuardianGetToken(tokenName) ==
    \E got \in {GetTokenOutcome(tokens, auditLog, tokenName)} :
    \E used \in {IF got.ok THEN RecordTokenUsageOutcome(tokens, auditLog, tokenName)
                 ELSE got} :
       /\ tokens' = used.tokens
       /\ auditLog' = used.auditLog
       /\ storeCall' = [op |-> "guardian.get", name |-> tokenName, ok |-> got.ok,
                        returned |-> got.returned]
       /\ UNCHANGED <<rotationSchedules, timers, nextTimer, rotating>>
       /\ UNCHANGED <<canaryVars, fpVars>>

\* TokenGuardian.removeToken(tokenName)
GuardianRemoveToken(tokenName) ==
    \E cancelled \in {CancelRotation(rotationSchedules, timers, tokenName)} :
    \E removed \in {RemoveTokenOutcome(tokens, auditLog, tokenName)} :
       /\ rotationSchedules' = cancelled.schedules
       /\ timers' = cancelled.timers
       /\ tokens' = removed.tokens
       /\ auditLog' = removed.auditLog
       /\ storeCall' = [op |-> "guardian.remove", name |-> tokenName, ok |-> removed.ok,
                        returned |-> <<>>]
       /\ UNCHANGED <<nextTimer, rotating>>
       /\ UNCHANGED <<canaryVars, fpVars>>

\* rotateToken(tokenName) up to its await: a token that is not stored ends the
\* call, a stored one leaves it waiting for the rotator with the token data
\* it read.
Awaiting(origin, tokenName) ==
    LET tokenData == GetTokenData(tokens, tokenName)
    IN  IF tokenData = NoToken THEN rotating
        ELSE Append(rotating, [name |-> tokenName, origin |-> origin,
                               canaryEnabled |-> tokenData.config.canaryEnabled])

\* rotateToken(tokenName), called by the program.
RotateToken(tokenName) ==
    /\ rotating' = Awaiting("manual", tokenName)
    /\ storeCall' = [op |-> "rotate", name |-> tokenName,
                     ok |-> tokens[tokenName] # NoToken, returned |-> <<>>]
    /\ UNCHANGED <<tokens, auditLog, rotationSchedules, timers, nextTimer>>
    /\ UNCHANGED <<canaryVars, fpVars>>

\* The callback of an armed timer starts: it calls rotateToken and awaits it.
\* For a token that is not stored rotateToken has returned already, and the
\* callback schedules the next rotation.
TimerFires(t) ==
    /\ t \in timers
    /\ rotating' = Awaiting("timer", t.name)
    /\ \E scheduled \in {IF tokens[t.name] = NoToken
                         THEN ScheduleRotation(rotationSchedules, timers \ {t},
                                               nextTimer, t.name)
                         ELSE [schedules |-> rotationSchedules, timers |-> timers \ {t},
                               nextTimer |-> nextTimer]} :
          /\ rotationSchedules' = scheduled.schedules
          /\ timers' = scheduled.timers
          /\ nextTimer' = scheduled.nextTimer
    /\ storeCall' = [op |-> "timer", name |-> t.name,
                     ok |-> tokens[t.name] # NoToken, returned |-> <<>>]
    /\ UNCHANGED <<tokens, auditLog>>
    /\ UNCHANGED <<canaryVars, fpVars>>

\* How the rotator's promise ends: with a new token, with a failure result, or
\* rejected.
RotatorFates == {"rotated", "failed", "rejects"}

\* The token a successful rotation returns.
NewToken == S("api-key_0123456789abcd")

\* The rotator's promise settles and rotateToken runs to its end: the new
\* token is marked if the config read before the await asks for it and stored
\* with updateToken; the callback of a timer then schedules the next rotation,
\* unless rotateToken was rejected.
RotatorSettles(i, fate, newExpiry) ==
    /\ i \in 1..Len(rotating)
    /\ \E canaryId \in MarkerIds :
       \E use \in {fate = "rotated" /\ rotating[i].canaryEnabled} :
       \E updated \in {IF fate = "rotated"
                       THEN UpdateTokenOutcome(tokens, auditLog, rotating[i].name,
                                               ProtectedValue(use, NewToken, canaryId),
                                               newExpiry)
                       ELSE Outcome(tokens, auditLog, FALSE, <<>>)} :
       \E scheduled \in {IF rotating[i].origin = "timer" /\ fate # "rejects"
                         THEN ScheduleRotation(rotationSchedules, timers, nextTimer,
                                               rotating[i].name)
                         ELSE Unscheduled} :
          /\ GuardianEmbeds(use, NewToken, rotating[i].name, canaryId)
          /\ tokens' = updated.tokens
          /\ auditLog' = updated.auditLog
          /\ rotationSchedules' = scheduled.schedules
          /\ timers' = scheduled.timers
          /\ nextTimer' = scheduled.nextTimer
          /\ storeCall' = [op |-> "settle", name |-> rotating[i].name,
                           ok |-> updated.ok, returned |-> <<>>]
    /\ rotating' = [k \in 1..(Len(rotating) - 1) |->
                      IF k < i THEN rotating[k] ELSE rotating[k + 1]]
    /\ UNCHANGED fpVars

----------------------------------------------------------------------------
(* The specifications *)

InitCanary ==
    /\ canaries = <<>>
    /\ alerts = <<>>
    /\ marked = NoMark
    /\ lastCall = NoCall
    /\ subscribers = <<>>
    /\ webhookUrl = Null
    /\ alertEndpoints = [n \in Names |-> Null]
    /\ delivered = <<>>
    /\ posts = <<>>
    /\ errorLog = <<>>

InitFingerprinter ==
    /\ fingerprints = [h \in AllHashes |-> NoRecord]
    /\ usageLog = <<>>
    /\ lastWarn = {}
    /\ infoLog = <<>>
    /\ fpCall = NoFpCall
    /\ pending = [ctx \in Contexts |-> <<>>]

\* The store and the guardian before their first call.
InitGuardian ==
    /\ tokens = [n \in Names |-> NoToken]
    /\ auditLog = <<>>
    /\ storeCall = NoStoreCall
    /\ rotationSchedules = [n \in Names |-> 0]
    /\ timers = {}
    /\ nextTimer = 0
    /\ rotating = <<>>

\* The canary engine, enabled or not.
Init ==
    /\ enabled \in BOOLEAN
    /\ InitCanary
    /\ maxHistoryLength = 0
    /\ InitFingerprinter
    /\ InitGuardian

Next ==
    \/ \E token \in Secrets, name \in Names : EmbedCanary(token, name)
    \/ \E c \in Candidates : DetectCanary(c.kind, c.token)

Spec == Init /\ [][Next]_vars

\* The fingerprinter, with a history of at most 0..MaxHist events.
InitFP ==
    /\ enabled = TRUE
    /\ InitCanary
    /\ maxHistoryLength \in 0..MaxHist
    /\ InitFingerprinter
    /\ InitGuardian

NextFP ==
    \/ \E name \in TokenNames : InitializeTracking(TrackedSecret, name, 12)
    \/ InitializeTracking(OtherSecret, "Other", 12)
    \/ /\ Len(usageLog) < MaxCalls
       /\ \E h \in Hashes, e \in Events : RecordUsage(h, e)
    \/ \E h \in AllHashes : RemoveTracking(h)

SpecFP == InitFP /\ [][NextFP]_vars

\* At most this many callbacks are registered and this many posts in flight.
MaxSubscribers == 2
MaxPosts == 2

\* The secrets marked under SpecAlerts: a JWT with a JSON payload and a mixed
\* one.
AlertSecrets == {S("hdr.eyJzdWIiOiIxIn0.sig"), S("api-key_0123456789abcd")}

WebhookUrls == {"https://hooks.example/canary", ""}
EndpointUrl == "https://alerts.example/api-key"

\* The strings detectCanary is called with under SpecAlerts: the latest marked
\* secret and a string embedCanary never returned.
AlertCandidates ==
    {[kind |-> "foreign", token |-> S("REGULAR_TOKEN_123")]}
    \cup (IF marked = NoMark THEN {}
          ELSE {[kind |-> "marked", token |-> marked.result]})

\* A step of detectCanary.
DetectStep == \E c \in AlertCandidates : DetectCanary(c.kind, c.token)

\* A post settles.
SettleStep == \E i \in 1..Len(posts), fate \in Fates : SettlePost(i, fate)

\* The enabled engine with subscribers, a webhook and an endpoint for API_KEY.
InitAlerts ==
    /\ enabled = TRUE
    /\ InitCanary
    /\ maxHistoryLength = 0
    /\ InitFingerprinter
    /\ InitGuardian

NextAlerts ==
    \/ EmbedCanary(S("hdr.eyJzdWIiOiIxIn0.sig"), "API_KEY")
    \/ \E name \in Names : EmbedCanary(S("api-key_0123456789abcd"), name)
    \/ /\ Len(posts) + 2 <= MaxPosts
       /\ DetectStep
    \/ /\ Len(subscribers) < MaxSubscribers
       /\ \E callback \in {"ok", "throws"} : OnCanaryTriggered(callback)
    \/ \E url \in WebhookUrls : ConfigureWebhook(url)
    \/ AddAlertEndpoint("API_KEY", EndpointUrl)
    \/ SettleStep

SpecAlerts == InitAlerts /\ [][NextAlerts]_vars

\* The fingerprinter as the tests configure it, maxHistoryLength = 5.
InitScenario ==
    /\ enabled = TRUE
    /\ InitCanary
    /\ maxHistoryLength = ScenarioHist
    /\ InitFingerprinter
    /\ InitGuardian

NextScenario ==
    \/ \E name \in TokenNames : InitializeTracking(TrackedSecret, name, 12)
    \/ /\ Len(usageLog) < ScenarioCalls
       /\ \E h \in Hashes, e \in ScenarioEvents : RecordUsage(h, e)

SpecScenario == InitScenario /\ [][NextScenario]_vars

\* The events the anomaly rules are exercised with: both hours, successes and
\* failures, two sources and two operations.
RuleEvents ==
    {Event(12, "api_call", "1.1.1.1", TRUE),
     Event(12, "api_call", "1.1.1.1", FALSE),
     Event(12, "admin", "2.2.2.2", FALSE),
     Event(2, "api_call", "1.1.1.1", TRUE),
     Event(2, "admin", "2.2.2.2", FALSE)}

\* The fingerprinter with maxHistoryLength = 5, tracking started at either
\* clock reading.
InitRules ==
    /\ enabled = TRUE
    /\ InitCanary
    /\ maxHistoryLength = ScenarioHist
    /\ InitFingerprinter
    /\ InitGuardian

NextRules ==
    \/ \E now \in Hours : InitializeTracking(TrackedSecret, "Test", now)
    \/ /\ Len(usageLog) < ScenarioCalls
       /\ fingerprints[TrackedHash] # NoRecord
       /\ \E e \in RuleEvents : RecordUsage(TrackedHash, e)

SpecRules == InitRules /\ [][NextRules]_vars

\* Both objects, for every secret and candidate of Spec and every call of
\* SpecFP, with or without a subscriber that throws.  The engine and the fingerprinter share
\* no state, so the calls of one are explored while the other is as
\* constructed.
InitNoRaise ==
    /\ enabled \in BOOLEAN
    /\ InitCanary
    /\ maxHistoryLength \in 0..MaxHist
    /\ InitFingerprinter
    /\ InitGuardian

NextNoRaise ==
    \/ /\ fpCall = NoFpCall
       /\ maxHistoryLength = 0
       /\ \/ \E token \in Secrets, name \in Names : EmbedCanary(token, name)
          \/ \E c \in Candidates : DetectCanary(c.kind, c.token)
          \/ /\ subscribers = <<>>
             /\ lastCall = NoCall
             /\ OnCanaryTriggered("throws")
    \/ /\ lastCall = NoCall
       /\ subscribers = <<>>
       /\ enabled
       /\ NextFP

SpecNoRaise == InitNoRaise /\ [][NextNoRaise]_vars

\* Each request context reports at most this many usage events.
MaxPending == 2

\* The events the contexts report.
ConcurrentEvents ==
    {Event(12, "api_call", "1.1.1.1", TRUE),
     Event(12, "api_call", "2.2.2.2", FALSE),
     Event(12, "admin", "2.2.2.2", TRUE)}

PendingQueues == UNION {[1..n -> ConcurrentEvents] : n \in 0..MaxPending}

\* Request contexts that report usage of the tracked secret, in any interleaving.
\* recordUsage has no await, so a call that has started ends before another
\* context runs.
InitConcurrent ==
    /\ enabled = TRUE
    /\ InitCanary
    /\ maxHistoryLength \in 0..MaxHist
    /\ fingerprints = [h \in AllHashes |-> NoRecord]
    /\ usageLog = <<>>
    /\ lastWarn = {}
    /\ infoLog = <<>>
    /\ fpCall = NoFpCall
    /\ pending \in [Contexts -> PendingQueues]
    /\ InitGuardian

NextConcurrent ==
    \/ InitializeTracking(TrackedSecret, "Test", 12)
    \/ /\ fingerprints[TrackedHash] # NoRecord
       /\ \E ctx \in Contexts : ContextRecordUsage(ctx)

SpecConcurrent == InitConcurrent /\ [][NextConcurrent]_vars

\* The audit log holds at most this many entries in the model.
MaxAudit == 3

StoreValues == {S("test-value"), S("updated-value")}
Expiries == {Null, "2030-01-01T00:00:00Z"}

\* The token store, called directly.
InitStore ==
    /\ enabled = TRUE
    /\ InitCanary
    /\ maxHistoryLength = 0
    /\ InitFingerprinter
    /\ InitGuardian

NextStore ==
    \/ /\ Len(auditLog) < MaxAudit
       /\ \/ \E name \in Names : StoreToken(name, S("test-value"), Config(TRUE, TRUE))
          \/ \E name \in Names, value \in StoreValues, expiry \in Expiries :
                UpdateToken(name, value, expiry)
          \/ \E name \in Names : RecordTokenUsage(name)
          \/ \E name \in Names : RemoveToken(name)
    \/ \E name \in Names : GetToken(name)
    \/ \E name \in Names \cup {Null} : GetAuditLog(name)

SpecStore == InitStore /\ [][NextStore]_vars

\* At most this many timers are armed in a behaviour, and at most this many
\* rotateToken calls await the rotator at a time.
MaxTimers == 3
MaxRotating == 2

\* Room for one more call: for the entry it may log and the timer it may arm,
\* now or when a rotation that awaits the rotator ends.
Room ==
    /\ Len(auditLog) + Len(rotating) < MaxAudit
    /\ nextTimer + Len(rotating) < MaxTimers

\* The guardian: tokens are protected, read, rotated and removed while timers
\* fire and rotations end in any order.
InitGuardianSpec ==
    /\ enabled = TRUE
    /\ InitCanary
    /\ maxHistoryLength = 0
    /\ InitFingerprinter
    /\ InitGuardian

NextGuardian ==
    \/ /\ Room
       /\ \E name \in Names, rotationEnabled \in BOOLEAN, canaryEnabled \in BOOLEAN :
             Protect(name, S("hdr.eyJzdWIiOiIxIn0.sig"), rotationEnabled, canaryEnabled)
    \/ /\ Room
       /\ \E name \in Names : GuardianGetToken(name)
    \/ /\ Room
       /\ \E name \in Names : GuardianRemoveToken(name)
    \/ /\ Room
       /\ Len(rotating) < MaxRotating
       /\ \E name \in Names : RotateToken(name)
    \/ /\ Room
       /\ Len(rotating) < MaxRotating
       /\ \E t \in timers : TimerFires(t)
    \/ \E i \in 1..Len(rotating), fate \in RotatorFates, newExpiry \in Expiries :
          RotatorSettles(i, fate, newExpiry)

SpecGuardian == InitGuardianSpec /\ [][NextGuardian]_vars

----------------------------------------------------------------------------
(* CanaryService: the properties, under Spec *)

\* The segment a token's payload is, decoded and parsed.
PayloadOf(token) == ParseJSON(Utf8Decode(Base64Decode(Split(token, ".")[2])))

\* The latest call was embedCanary's, or a detectCanary after it, on an enabled
\* engine, for a secret of the given shape.
MarkedAs(shape) == enabled /\ marked # NoMark /\ EmbedderFor(marked.token) = shape

\* The latest call was detectCanary on what the latest embedCanary returned.
DetectedMarked == lastCall.op = "detect" /\ lastCall.kind = "marked"

\* C1: JWT round trip.  On an enabled engine, embedCanary on a token of three
\* segments whose second decodes to a JSON object returns three segments, the
\* first and the third as they were and the second changed, and detectCanary of
\* the result returns the name.
C1_JwtRoundTrip ==
    (MarkedAs("jwt") /\ PayloadOf(marked.token).ok) =>
        LET was == Split(marked.token, ".")
            now == Split(marked.result, ".")
        IN  /\ Len(now) = 3
            /\ now[1] = was[1]
            /\ now[3] = was[3]
            /\ now[2] # was[2]
            /\ DetectedMarked => lastCall.name = marked.name

C1_Witness ==
    /\ MarkedAs("jwt")
    /\ marked.token = S("hdr.eyJzdWIiOiIxIn0.sig")
    /\ marked.result = S("hdr.eyJzdWIiOiIxIiwiX2NpZCI6ImExYjJjM2Q0In0.sig")
    /\ DetectedMarked
    /\ lastCall.name = "API_KEY"
    /\ lastCall.method = "jwt_standard"

\* C2: Base64 round trip.  On an enabled engine, detectCanary of what
\* embedCanary returned for a secret longer than 20 characters, of the base64
\* alphabet only, that decodes to at least 16 bytes, returns the name, whatever
\* marker id was generated.
C2_Base64RoundTrip ==
    (MarkedAs("base64") /\ Len(Base64Decode(marked.token)) >= 16 /\ DetectedMarked)
        => lastCall.name = marked.name

\* C3: Mixed round trip.  On an enabled engine, detectCanary of what embedCanary
\* returned for a secret longer than 20 characters with a character outside the
\* base64 and the hexadecimal alphabets returns the name, whatever marker id was
\* generated.
C3_MixedRoundTrip ==
    (MarkedAs("mixed") /\ DetectedMarked) => lastCall.name = marked.name

\* A secret longer than 20 characters, not of three segments, of hexadecimal
\* digits only, marked on an enabled engine.
MarkedHexShaped ==
    /\ enabled
    /\ marked # NoMark
    /\ ~LooksLikeJWT(marked.token)
    /\ Len(marked.token) > ShortLimit
    /\ IsHexCharset(marked.token)

\* C4: Hex round trip.  On an enabled engine, a secret longer than 20 characters
\* of hexadecimal digits only goes to the Hex embedder, which splices 4
\* characters in at 3/4 of the length and leaves the others, and detectCanary of
\* the result goes to the Hex extractor and returns the name.
C4_HexRoundTrip ==
    MarkedHexShaped =>
        /\ EmbedderFor(marked.token) = "hex"
        /\ marked.result = EmbedHexToken(marked.token, marked.id)
        /\ DetectedMarked => (lastCall.method = "hex" /\ lastCall.name = marked.name)

\* C5: Disabled engine.  After any calls on an engine constructed with
\* enabled = false, embedCanary returned its input, no marker is registered,
\* detectCanary returned null and no alert was emitted.
C5_DisabledEngine ==
    ~enabled =>
        /\ canaries = <<>>
        /\ alerts = <<>>
        /\ marked # NoMark => marked.result = marked.token
        /\ lastCall.op = "detect" => lastCall.name = Null

C5_Witness ==
    /\ ~enabled
    /\ marked # NoMark
    /\ marked.token = S("hdr.eyJzdWIiOiIxIn0.sig")
    /\ marked.result = marked.token
    /\ DetectedMarked
    /\ lastCall.name = Null

\* C6: Short-secret policy.  On an enabled engine, embedCanary returns a secret
\* of at most 20 characters that is not of three segments as it was.
C6_ShortSecret ==
    (enabled /\ marked # NoMark /\ Len(marked.token) <= ShortLimit
        /\ ~LooksLikeJWT(marked.token))
        => marked.result = marked.token

C6_Witness ==
    /\ enabled
    /\ marked # NoMark
    /\ marked.token = S("a.b")
    /\ marked.result = S("a.b")
    /\ Has(canaries, marked.id)

\* C7: Corruption tolerance.  detectCanary of a marked base64 or hexadecimal
\* secret of more than 20 characters, with one or two of the embedded bits, or
\* one or two of the 4 spliced characters, changed, still returns the name.
C7_CorruptionTolerance ==
    (enabled /\ lastCall.op = "detect" /\ lastCall.kind \in {"bits", "hex"})
        => lastCall.name = marked.name

----------------------------------------------------------------------------
(* TokenFingerprinter: the properties, under SpecFP and SpecScenario *)

\* The events recordUsage has recorded for the tracked hash, in call order.
Recorded == [i \in 1..Len(usageLog) |-> usageLog[i].event]

Tracked == fingerprints[TrackedHash] # NoRecord

\* C8: History bound with FIFO eviction.  After every recordUsage the history
\* of a tracked hash holds at most maxHistoryLength events, and they are the
\* latest min(N, maxHistoryLength) of the N recorded, in the order recorded.
C8_HistoryBound ==
    Tracked =>
        LET history == fingerprints[TrackedHash].history
            n == Len(Recorded)
            kept == Min(n, maxHistoryLength)
        IN  /\ Len(history) <= maxHistoryLength
            /\ Len(history) = kept
            /\ \A i \in 1..kept : history[i] = Recorded[n - kept + i]

C8_Witness ==
    /\ Tracked
    /\ maxHistoryLength = 2
    /\ Len(Recorded) = 3
    /\ Recorded[1] # Recorded[2]
    /\ Recorded[1] # Recorded[3]
    /\ fingerprints[TrackedHash].history = <<Recorded[2], Recorded[3]>>

\* C9: Success-rate exactness.  After every recordUsage on a tracked hash, for
\* any maxHistoryLength, successRate is successes / events over the retained
\* history, and lies in [0, 1].
C9_SuccessRate ==
    (Tracked /\ Len(Recorded) > 0) =>
        LET history == fingerprints[TrackedHash].history
            rate == fingerprints[TrackedHash].patterns.successRate
        IN  /\ rate = Quotient(Successes(history), Len(history))
            /\ rate.den > 0
            /\ 0 <= rate.num
            /\ rate.num <= rate.den

\* The first k recorded events are successes of one source and one operation.
Uniform(k) ==
    /\ Len(Recorded) >= k
    /\ \A i \in 1..k : /\ Recorded[i].success
                       /\ Recorded[i].source = Recorded[1].source
                       /\ Recorded[i].operation = Recorded[1].operation

\* The sixth recorded event is a success of the same operation from another source.
SixthFromElsewhere ==
    /\ Len(Recorded) >= 6
    /\ Uniform(5)
    /\ Recorded[6].success
    /\ Recorded[6].operation = Recorded[1].operation
    /\ Recorded[6].source # Recorded[1].source

\* C10, as claimed: Scenario B.  On a fresh record, 5 successes of one source
\* and one operation at noon log no warning at all, and a sixth from another
\* source logs a new-source warning.
C10_ScenarioB_AsClaimed ==
    /\ \A k \in 1..5 : Uniform(k) => usageLog[k].warnings = {}
    /\ SixthFromElsewhere => "new_source" \in usageLog[6].warnings

\* C10: Scenario B.  On a fresh record, the first of 5 successes of one source
\* and one operation at noon logs a new-source and a new-operation warning, the
\* next four log none, and a sixth from another source logs a new-source
\* warning and no other.
C10_ScenarioB ==
    /\ Uniform(1) => usageLog[1].warnings = {"new_source", "new_operation"}
    /\ \A k \in 2..5 : Uniform(k) => usageLog[k].warnings = {}
    /\ SixthFromElsewhere => usageLog[6].warnings = {"new_source"}

C10_Witness ==
    /\ Tracked
    /\ SixthFromElsewhere
    /\ Recorded[1].source = "1.1.1.1"
    /\ Recorded[6].source = "2.2.2.2"
    /\ usageLog[6].warnings = {"new_source"}

\* A record as initializeTracking creates it: nothing used, nothing seen.
Fresh(data) ==
    /\ data # NoRecord
    /\ data.history = <<>>
    /\ data.patterns.sources = {}
    /\ data.patterns.operations = {}
    /\ data.patterns.totalUsage = 0
    /\ data.patterns.successRate = One

\* 16 hexadecimal characters
IsFingerprint(hash) ==
    /\ Len(S(hash)) = 16
    /\ \A i \in 1..16 : S(hash)[i] \in HexCharset /\ ~IsUpperAF(S(hash)[i])

\* C12: initializeTracking is idempotent and content-addressed.  Every call
\* returns the 16 hexadecimal characters that are the secret's fingerprint; the
\* first call for a secret creates a fresh record and logs 'Started tracking';
\* a later call, whatever the name and the usage recorded since, leaves every
\* record as it is and logs nothing.
C12_IdempotentTracking ==
    [][fpCall'.op = "init" =>
         /\ fpCall'.returned = GenerateFingerprint(fpCall'.token)
         /\ IsFingerprint(fpCall'.returned)
         /\ fpCall'.existed = (fingerprints[fpCall'.returned] # NoRecord)
         /\ fpCall'.existed => (fingerprints' = fingerprints /\ infoLog' = <<>>)
         /\ ~fpCall'.existed =>
               /\ Fresh(fingerprints'[fpCall'.returned])
               /\ Len(infoLog') = 1
               /\ infoLog'[1][1] = "Started tracking token"
               /\ \A h \in AllHashes \ {fpCall'.returned} :
                     fingerprints'[h] = fingerprints[h]]_vars

C12_Witness ==
    /\ fpCall.op = "init"
    /\ fpCall.token = TrackedSecret
    /\ fpCall.existed
    /\ fpCall.returned = TrackedHash
    /\ fingerprints[TrackedHash].patterns.totalUsage = 2
    /\ fingerprints[TrackedHash].tokenName = "Test"
    /\ infoLog = <<>>

\* C13: Unknown fingerprint.  recordUsage with a hash that is not tracked logs
\* one warning and changes no record: none is created, none is altered.
C13_UnknownFingerprint ==
    [][(fpCall'.op = "record" /\ fingerprints[fpCall'.hash] = NoRecord) =>
         /\ fingerprints' = fingerprints
         /\ lastWarn' = {"unknown_token"}
         /\ ~fpCall'.raised]_vars

C13_Witness ==
    /\ fpCall.op = "record"
    /\ fpCall.hash = UnknownHash
    /\ ~fpCall.existed
    /\ lastWarn = {"unknown_token"}
    /\ fingerprints[UnknownHash] = NoRecord
    /\ fingerprints[TrackedHash] # NoRecord
    /\ fingerprints[TrackedHash].patterns.totalUsage = 1

\* C14: removeTracking is a hard delete.  After removeTracking(hash) the three
\* getters answer as for a hash never tracked; a recordUsage on the hash then
\* changes nothing and warns; an initializeTracking of the secret then creates a
\* fresh record under the same hash; and a record disappears only in a
\* removeTracking of its hash.
C14_HardDelete ==
    /\ [](fpCall.op = "remove" =>
             /\ GetFingerprint(fpCall.hash) = NoRecord
             /\ GetUsageHistory(fpCall.hash, 0) = <<>>
             /\ GetUsagePatterns(fpCall.hash) = NoPatterns)
    /\ [][/\ (fpCall.op = "remove" /\ fpCall'.op = "record" /\ fpCall'.hash = fpCall.hash)
              => (fingerprints' = fingerprints /\ lastWarn' = {"unknown_token"})
          /\ (fpCall.op = "remove" /\ fpCall'.op = "init" /\ fpCall'.returned = fpCall.hash)
              => (~fpCall'.existed /\ Fresh(fingerprints'[fpCall.hash]))
          /\ \A h \in AllHashes :
                (fingerprints[h] # NoRecord /\ fingerprints'[h] = NoRecord)
                    => (fpCall'.op = "remove" /\ fpCall'.hash = h)]_vars

C14_Witness ==
    /\ fpCall.op = "remove"
    /\ fpCall.hash = TrackedHash
    /\ fpCall.existed
    /\ Len(usageLog) = 2
    /\ fingerprints[TrackedHash] = NoRecord
    /\ fingerprints[OtherHash] # NoRecord

\* C17: No lost updates.  In every interleaving of the contexts' recordUsage
\* calls on the tracked hash, each call adds 1 to totalUsage, appends its event
\* to the history as the calls before it left it and evicts from the front, and
\* recomputes successRate over what is retained; so after N calls totalUsage
\* is N and the history is the last min(N, maxHistoryLength) events in the
\* order the calls ran.
C17_NoLostUpdates ==
    /\ [](Tracked =>
             LET data == fingerprints[TrackedHash]
                 n == Len(Recorded)
                 kept == Min(n, maxHistoryLength)
             IN  /\ data.patterns.totalUsage = n
                 /\ data.history = SubSeq(Recorded, n - kept + 1, n)
                 /\ n > 0 => data.patterns.successRate
                                = Quotient(Successes(data.history), Len(data.history)))
    /\ [][\A ctx \in Contexts :
            (pending[ctx] # <<>> /\ pending'[ctx] = Tail(pending[ctx])) =>
                LET before == fingerprints[TrackedHash]
                    after == fingerprints'[TrackedHash]
                IN  /\ after.patterns.totalUsage = before.patterns.totalUsage + 1
                    /\ after.history
                         = LastK(Append(before.history, Head(pending[ctx])), maxHistoryLength)
                    /\ \A other \in Contexts \ {ctx} : pending'[other] = pending[other]]_vars

C17_Witness ==
    /\ Tracked
    /\ \A ctx \in Contexts : pending[ctx] = <<>>
    /\ maxHistoryLength = 2
    /\ Len(Recorded) = 4
    /\ fingerprints[TrackedHash].patterns.totalUsage = 4
    /\ fingerprints[TrackedHash].history = <<Recorded[3], Recorded[4]>>
    /\ Recorded[3] # Recorded[4]
    /\ fingerprints[TrackedHash].patterns.successRate = [num |-> 1, den |-> 2]

\* The latest call was a recordUsage on a hash that had a record.
RecordedKnown == fpCall.op = "record" /\ fpCall.existed

\* The event of the latest recordUsage call on the tracked hash.
LatestEvent == usageLog[Len(usageLog)].event

\* The history the failure-rate rule looks at holds a spike: RecentWindow
\* events of which at most FailureTenths in ten succeeded.
Spike(data) ==
    LET recentEvents == LastK(data.history, RecentWindow)
    IN  /\ Len(recentEvents) >= RecentWindow
        /\ Successes(recentEvents) * 10 <= FailureTenths * Len(recentEvents)

\* C18: Anomaly rules see the pre-update record.  A recordUsage call on a known
\* hash whose event's source (operation) is absent from the record's sources
\* (operations) at call time logs a new-source (new-operation) warning, and the
\* same event recorded again immediately afterwards logs neither.
C18_PreUpdateRecord ==
    [][RecordedKnown' =>
         LET data == fingerprints[fpCall'.hash]
             event == LatestEvent'
         IN  /\ event.source \notin data.patterns.sources => "new_source" \in lastWarn'
             /\ event.operation \notin data.patterns.operations
                    => "new_operation" \in lastWarn'
             /\ (Len(usageLog) > 0 /\ LatestEvent = event)
                    => lastWarn' \cap {"new_source", "new_operation"} = {}]_vars

\* C19: Failure-rate spike rule.  A recordUsage call on a known hash logs an
\* 'Unusual failure rate' warning exactly when the RecentWindow most recent
\* events of the record hold a success ratio at or below the threshold; it logs
\* none when the ratio is above it or fewer than RecentWindow events are kept.
C19_FailureRateRule ==
    [][RecordedKnown' =>
         ("failure_rate" \in lastWarn' <=> Spike(fingerprints[fpCall'.hash]))]_vars

\* C20: Off-hours rule.  A recordUsage call on a known hash logs an 'Off-hours
\* token usage' warning if and only if the UTC hour of the event's own
\* timestamp is the off-hours hour, whatever the clock read when the record
\* was made and whatever was recorded before.
C20_OffHoursRule ==
    [][RecordedKnown' => ("off_hours" \in lastWarn' <=> LatestEvent'.timestamp = OffHour)]_vars

C20_Witness ==
    /\ RecordedKnown
    /\ Tracked
    /\ fingerprints[TrackedHash].firstSeen = 12
    /\ Len(usageLog) = 2
    /\ usageLog[1].event.timestamp = 12
    /\ "off_hours" \notin usageLog[1].warnings
    /\ LatestEvent.timestamp = OffHour
    /\ lastWarn = {"off_hours"}

\* The method a candidate's shape is detected by.
MethodFits(token, method) ==
    IF LooksLikeJWT(token) THEN method \in {"jwt_standard", "jwt_binary"}
    ELSE IF IsBase64Charset(token) THEN method = "base64"
    ELSE IF IsHexCharset(token) THEN method = "hex"
    ELSE method = "mixed"

\* C15: Alert on positive detection.  On an enabled engine, a detectCanary call
\* that returns a name emits during the call exactly one 'canaryDetected'
\* event, delivered to every registered subscriber as callback(name, alertData),
\* with the detection method of the candidate's shape and the candidate masked
\* to its first 4 characters, "****" and its last 4 ("****" alone for at most 8
\* characters); a call that returns null emits no event.
C15_AlertOnDetection ==
    [][DetectStep =>
         IF Truthy(lastCall'.name)
         THEN LET alert == [tokenName |-> lastCall'.name,
                            detectionMethod |-> lastCall'.method,
                            partialToken |-> MaskToken(lastCall'.candidate)]
              IN  /\ alerts' = <<alert>>
                  /\ MethodFits(lastCall'.candidate, lastCall'.method)
                  /\ delivered' = [i \in 1..Len(subscribers) |->
                                     [subscriber |-> i, name |-> lastCall'.name, alert |-> alert]]
         ELSE alerts' = <<>> /\ delivered' = <<>>]_vars

\* The posts a detection of name starts: one to the webhook if one is
\* configured, one to the name's endpoint if there is one.
PostsFor(name, alert) ==
    (IF Truthy(webhookUrl)
     THEN <<[to |-> "webhook", url |-> webhookUrl, alert |-> alert]>> ELSE <<>>)
    \o (IF Truthy(alertEndpoints[name])
        THEN <<[to |-> "endpoint", url |-> alertEndpoints[name], alert |-> alert]>>
        ELSE <<>>)

\* C16: Alert delivery is fire-and-forget.  When detectCanary finds a marker's
\* name it starts one post to the webhook if one is configured and one to the
\* endpoint of that name if there is one, and returns the name with both posts
\* still in flight, without raising; a post that later fails, by rejection or
\* by a throw of axios.post, writes one line to the error log and changes
\* neither what detectCanary returned nor the other post.
C16_FireAndForget ==
    /\ [][\A c \in AlertCandidates :
            \A found \in {DetectReturn(enabled, canaries, c.token)} :
               (DetectCanary(c.kind, c.token) /\ Truthy(found.name)) =>
                  /\ lastCall'.name = found.name
                  /\ ~lastCall'.raised
                  /\ posts' = posts \o PostsFor(found.name,
                                                AlertData(found.name, c.token, found.method))]_vars
    /\ [][SettleStep =>
            /\ lastCall' = lastCall
            /\ Len(posts') = Len(posts) - 1
            /\ Len(errorLog') <= 1]_vars

\* C11: No operation raises.  For every secret, candidate and registry state
\* embedCanary and detectCanary return a value and do not throw, and recordUsage
\* returns normally for every hash and event.  A payload that does not parse
\* leaves embedCanary with the secret as it was or with the fallback marking of
\* the payload, and a detectCanary call whose decoding finds no registered
\* marker returns null and alerts nobody.
C11_NoRaise ==
    /\ ~lastCall.raised
    /\ ~fpCall.raised
    /\ lastCall.op = "detect" =>
          /\ lastCall.name \in Names \cup {Null}
          /\ ~Truthy(DetectReturn(enabled, canaries, lastCall.candidate).name)
                => (lastCall.name = Null /\ alerts = <<>>)
    /\ (lastCall.op = "embed" /\ LooksLikeJWT(marked.token) /\ ~PayloadOf(marked.token).ok) =>
          LET parts == Split(marked.token, ".")
          IN  \/ marked.result = marked.token
              \/ /\ enabled
                 /\ marked.result = parts[1] \o S(".")
                                       \o EmbedBase64Marker(parts[2], marked.id)
                                       \o S(".") \o parts[3]
    /\ fpCall.op = "record" =>
          (fpCall.existed \/ lastWarn = {"unknown_token"})

C11_Witness ==
    /\ enabled
    /\ subscribers = <<"throws">>
    /\ lastCall.op = "detect"
    /\ lastCall.kind = "marked"
    /\ LooksLikeJWT(marked.token)
    /\ ~PayloadOf(marked.token).ok
    /\ ~PayloadOf(lastCall.candidate).ok
    /\ ~lastCall.raised

\* C22: Anomaly rules are independent.  In one recordUsage call on a known hash
\* every rule whose condition holds on the record before the call and the
\* event logs its warning: off-hours, failure rate, new source and new operation
\* together when all four hold, none suppressing another.
C22_IndependentRules ==
    [][RecordedKnown' =>
         LET data == fingerprints[fpCall'.hash]
             event == LatestEvent'
         IN  /\ event.timestamp = OffHour => "off_hours" \in lastWarn'
             /\ Spike(data) => "failure_rate" \in lastWarn'
             /\ event.source \notin data.patterns.sources => "new_source" \in lastWarn'
             /\ event.operation \notin data.patterns.operations
                    => "new_operation" \in lastWarn']_vars

\* The first recordUsage call, since tracking started, whose event came from
\* the source (used the operation).
FirstFrom(source) ==
    CHOOSE i \in 1..Len(usageLog) :
        /\ usageLog[i].event.source = source
        /\ \A j \in 1..(i - 1) : usageLog[j].event.source # source

FirstUsing(operation) ==
    CHOOSE i \in 1..Len(usageLog) :
        /\ usageLog[i].event.operation = operation
        /\ \A j \in 1..(i - 1) : usageLog[j].event.operation # operation

\* C28: No source or operation is absorbed silently.  In every reachable state
\* of the tracked record each of its sources was announced by a new-source
\* warning, and each of its operations by a new-operation warning, at the
\* recordUsage call that first added it.
C28_NothingAbsorbedSilently ==
    Tracked =>
        /\ \A source \in fingerprints[TrackedHash].patterns.sources :
              "new_source" \in usageLog[FirstFrom(source)].warnings
        /\ \A operation \in fingerprints[TrackedHash].patterns.operations :
              "new_operation" \in usageLog[FirstUsing(operation)].warnings

\* C27: A failing subscriber cannot change a detection.  When a callback
\* registered with onCanaryTriggered throws while the 'canaryDetected' event is
\* delivered, detectCanary still returns the name of the marker it found, for
\* every shape, does not raise, and the webhook and endpoint posts are started.
C27_FailingSubscriber ==
    [][\A c \in AlertCandidates :
         \A found \in {DetectReturn(enabled, canaries, c.token)} :
            (/\ DetectCanary(c.kind, c.token)
             /\ Truthy(found.name)
             /\ FirstThrowing(subscribers) > 0) =>
                /\ ~lastCall'.raised
                /\ lastCall'.name = found.name
                /\ Len(posts') = Len(posts) + Len(PostsFor(found.name,
                                     AlertData(found.name, c.token, found.method)))]_vars

\* No embedCanary call on an enabled engine returns the string, whatever the
\* secret and the marker id: the string carries no marker.
NeverReturned(token) ==
    \A secret \in Secrets, canaryId \in CanaryIds :
        EmbedTable[TRUE, secret, canaryId] # token

\* C21: No false positive.  For every candidate that embedCanary never returned
\* detectCanary returns null and emits no alert, whatever markers are registered.
C21_NoFalsePositive ==
    (/\ lastCall.op = "detect"
     /\ lastCall.kind = "foreign"
     /\ NeverReturned(lastCall.candidate)) =>
        /\ lastCall.name = Null
        /\ alerts = <<>>

\* C29: Correct attribution with several markers.  Whatever markers earlier
\* embedCanary calls registered for other names, when detectCanary of what
\* embedCanary(secret, n) returned gives a name, the name is n.
C29_CorrectAttribution ==
    (/\ enabled
     /\ marked # NoMark
     /\ DetectedMarked
     /\ Truthy(lastCall.name)) => lastCall.name = marked.name

\* C23: The registry is append-only and ids are never reused.  Over every
\* embedCanary, detectCanary, configureWebhook and addAlertEndpoint call a
\* registered marker id stays registered under the name of the embedCanary call
\* that created it, and an embedCanary call on an enabled engine registers an id
\* no earlier call registered.
C23_AppendOnlyRegistry ==
    [][/\ \A i \in 1..Len(canaries) :
            /\ Has(canaries', canaries[i].id)
            /\ Get(canaries', canaries[i].id) = canaries[i].name
       /\ (enabled /\ lastCall'.op = "embed" /\ marked' # marked) =>
            (~Has(canaries, marked'.id) /\ Len(canaries') = Len(canaries) + 1)]_vars

\* C24: Length and shape preservation.  For a secret longer than 20 characters
\* embedCanary returns a string of the same length when the secret is of the
\* base64 or the hexadecimal alphabet, padded or not, and one at most 32
\* codepoints longer when it is mixed; for a secret of three '.'-separated
\* segments it returns three segments.
C24_ShapePreserved ==
    (enabled /\ marked # NoMark) =>
        /\ LooksLikeJWT(marked.token) => Len(Split(marked.result, ".")) = 3
        /\ (~LooksLikeJWT(marked.token) /\ Len(marked.token) > ShortLimit) =>
              IF IsBase64Charset(marked.token) \/ IsHexCharset(marked.token)
              THEN Len(marked.result) = Len(marked.token)
              ELSE /\ Len(marked.result) >= Len(marked.token)
                   /\ Len(marked.result) <= Len(marked.token) + 32

\* C25: JWT binary fallback round trip.  For a secret of three segments whose
\* second is not JSON and decodes to at least 32 bytes, detectCanary of what
\* embedCanary returned reads back from the two low bits of the bytes at 1/3 of
\* the payload the marker id that was registered, and returns the name.
C25_BinaryFallbackRoundTrip ==
    (/\ MarkedAs("jwt")
     /\ ~PayloadOf(marked.token).ok
     /\ Len(Base64Decode(Standard(Split(marked.token, ".")[2]))) >= 32
     /\ DetectedMarked) =>
        /\ ExtractBase64Marker(Split(marked.result, ".")[2]) = marked.id
        /\ lastCall.name = marked.name

----------------------------------------------------------------------------
(* TokenStore and TokenGuardian: the properties, under SpecStore and SpecGuardian *)

\* The action the audit log names a call of the store by.
AuditAction(op) ==
    CASE op = "store" -> "store"
      [] op = "get" -> "use"
      [] op = "update" -> "update"
      [] op = "remove" -> "remove"

\* C26: TokenStore audit log.  Every successful storeToken, getToken,
\* updateToken and removeToken appends exactly one entry for its token, of
\* action 'store', 'use', 'update' and 'remove', after the entries of the
\* earlier calls, which stay as they were, those of a removed token included;
\* getAuditLog(name) returns the entries of that name in the log's order.
C26_AuditLog ==
    [][/\ (storeCall'.op \in {"store", "get", "update", "remove"}
           /\ (storeCall' # storeCall \/ auditLog' # auditLog)
           /\ storeCall'.ok) =>
             /\ Len(auditLog') = Len(auditLog) + 1
             /\ SubSeq(auditLog', 1, Len(auditLog)) = auditLog
             /\ auditLog'[Len(auditLog')].tokenName = storeCall'.name
             /\ auditLog'[Len(auditLog')].action = AuditAction(storeCall'.op)
       /\ storeCall'.op = "audit" =>
             /\ auditLog' = auditLog
             /\ storeCall'.returned =
                  (IF storeCall'.name = Null THEN auditLog
                   ELSE EntriesOf(auditLog, storeCall'.name))]_vars

\* C30: The rotation schedule follows the token's lifetime.  At most one
\* rotation timer is armed for a name, and from the return of removeToken(name)
\* to the next protect(name, ...) none is, however timers, rotations and calls
\* interleave.
C30_ScheduleFollowsLifetime ==
    \A name \in Names :
        /\ Cardinality({t \in timers : t.name = name}) <= 1
        /\ tokens[name] = NoToken => ~\E t \in timers : t.name = name

=============================================================================
